---- MODULE Spec2Model ----
(***************************************************************************)
(* Page classification and document segmentation of the trade-finance     *)
(* PDF splitter scripts (server/*.py).  One behaviour is one run (and one  *)
(* re-run) of one script on one PDF.                                       *)
(*                                                                         *)
(* A page text is a sequence of tokens separated by single blanks, which   *)
(* is what ' '.join(text.split()) leaves.  Substring tests, regular        *)
(* expressions and lower() are given by tables over the token vocabulary.  *)
(* A confidence is an integer number of thousandths (0.95 is 950).         *)
(***************************************************************************)
EXTENDS Integers, Sequences, FiniteSets, TLC

\* Every PDF of at most MaxPages pages over the corpus is an input.
MaxPages == 3
\* PDFs whose pages alternate between two corpus pages go up to MaxLongPages.
MaxLongPages == 12

Min(a, b) == IF a < b THEN a ELSE b
Max(a, b) == IF a > b THEN a ELSE b

RECURSIVE SeqMin(_)
SeqMin(s) == IF Len(s) = 1 THEN s[1] ELSE Min(s[1], SeqMin(Tail(s)))
RECURSIVE SeqMax(_)
SeqMax(s) == IF Len(s) = 1 THEN s[1] ELSE Max(s[1], SeqMax(Tail(s)))
RECURSIVE SeqSum(_)
SeqSum(s) == IF s = <<>> THEN 0 ELSE s[1] + SeqSum(Tail(s))
RECURSIVE Flatten(_)
Flatten(ss) == IF ss = <<>> THEN <<>> ELSE ss[1] \o Flatten(Tail(ss))
Range(s) == {s[i] : i \in DOMAIN s}

(***************************************************************************)
(* Text                                                                    *)
(***************************************************************************)

\* str.lower() of a token.
Lower(t) ==
  CASE t = "COMMERCIAL INVOICE" -> "commercial invoice"
    [] t = "Invoice No:" -> "invoice no:"
    [] t = "INV-001" -> "inv-001"
    [] t = "INV-002" -> "inv-002"
    [] t = "Seller:" -> "seller:"
    [] t = "Buyer:" -> "buyer:"
    [] t = "BILL OF LADING" -> "bill of lading"
    [] t = "B/L No:" -> "b/l no:"
    [] t = "BL-900" -> "bl-900"
    [] t = "Shipper:" -> "shipper:"
    [] t = "PACKING LIST" -> "packing list"
    [] t = "Gross Weight" -> "gross weight"
    [] t = "Ref:" -> "ref:"
    [] t = "PO-123" -> "po-123"
    [] t = "HEALTH CERTIFICATE" -> "health certificate"
    [] t = "Net Weight" -> "net weight"
    [] t = "Error" -> "error"
    [] t = "BILL" -> "bill"
    [] t = "BL-900 Shipper:" -> "bl-900 shipper:"
    [] t = "INV-001 PO-123" -> "inv-001 po-123"
    [] t = "INV-001 Seller:" -> "inv-001 seller:"
    [] t = "Invoice" -> "invoice"
    [] t = "No:" -> "no:"
    [] t = "OF LADING B/L No:" -> "of lading b/l no:"
    [] t = "PACKING LIST Gross Weight" -> "packing list gross weight"
    [] t = "Scanned" -> "scanned"
    [] t = "Page" -> "page"
    [] t = "Letter of Credit" -> "letter of credit"
    [] t = "Commercial Invoice" -> "commercial invoice"
    [] t = "Bill of Lading" -> "bill of lading"
    [] t = "Certificate of Origin" -> "certificate of origin"
    [] t = "Packing List" -> "packing list"
    [] t = "Insurance Certificate" -> "insurance certificate"
    [] t = "Inspection Certificate" -> "inspection certificate"
    [] t = "Bill of Exchange" -> "bill of exchange"
    [] t = "Bank Guarantee" -> "bank guarantee"
    [] t = "Customs Declaration" -> "customs declaration"
    [] t = "Weight Certificate" -> "weight certificate"
    [] t = "Transport Document" -> "transport document"
    [] t = "Health Certificate" -> "health certificate"
    [] t = "Fumigation Certificate" -> "fumigation certificate"
    [] t = "Trade Finance Document" -> "trade finance document"
    [] OTHER -> t

\* text.lower()
LowerText(text) == [i \in DOMAIN text |-> Lower(text[i])]

\* The catalog phrases and pattern alternatives that occur in a lower-case
\* token.  No phrase of any catalog straddles two tokens of the vocabulary.
Phrases(t) ==
  CASE t = "b/l no:" -> {"b/l", "b/l no", "no[.:\\s]"}
    [] t = "bill" -> {"bill"}
    [] t = "bill of lading" -> {"bill", "bill of lading", "bill\\s+of\\s+lading", "lading"}
    [] t = "bl-900 shipper:" -> {"ship", "shipper", "shipper[:\\s]"}
    [] t = "buyer:" -> {"buyer", "buyer[:\\s]"}
    [] t = "commercial invoice" -> {"commercial invoice", "commercial\\s+invoice", "invoice"}
    [] t = "gross weight" -> {"gross", "gross weight", "gross\\s+weight", "weight"}
    [] t = "health certificate" -> {"certificate", "health", "health certificate"}
    [] t = "inv-001 seller:" -> {"seller", "seller[:\\s]"}
    [] t = "invoice" -> {"invoice"}
    [] t = "net weight" -> {"net", "net weight", "net\\s+weight", "weight"}
    [] t = "invoice no:" -> {"invoice", "invoice no", "invoice\\s+no", "no[.:\\s]"}
    [] t = "no:" -> {"no[.:\\s]"}
    [] t = "of lading b/l no:" -> {"b/l", "b/l no", "lading", "no[.:\\s]"}
    [] t = "packing list" -> {"packing", "packing list", "packing\\s+list"}
    [] t = "packing list gross weight" -> {"gross", "gross weight", "gross\\s+weight", "packing", "packing list", "packing\\s+list", "weight"}
    [] t = "ref:" -> {"ref[.:\\s]"}
    [] t = "seller:" -> {"seller", "seller[:\\s]"}
    [] t = "shipper:" -> {"ship", "shipper", "shipper[:\\s]"}
    [] OTHER -> {}

\* keyword in text_lower
Contains(text_lower, keyword) ==
  \E i \in DOMAIN text_lower : keyword \in Phrases(text_lower[i])

\* re.search(pattern, text) for a pattern that is an alternation of phrases.
Search(pattern, text_lower) == \E a \in pattern : Contains(text_lower, a)

\* The token ends in no, number or ref (and '.' or ':'), so that the blank
\* after it completes (?:no|number|ref)[.:\s]+ .
IsMarker(t) == t \in {"b/l no:", "invoice no:", "ref:"}

\* What ([a-z0-9\-/]{3,12}) captures at the start of the token after a
\* marker; "" when fewer than 3 such characters start it.
Capture(t) ==
  CASE t = "b/l no:" -> "b/l"
    [] t = "bill of lading" -> "bill"
    [] t = "buyer:" -> "buyer"
    [] t = "commercial invoice" -> "commercial"
    [] t = "gross weight" -> "gross"
    [] t = "health certificate" -> "health"
    [] t = "invoice no:" -> "invoice"
    [] t = "net weight" -> "net"
    [] t = "packing list" -> "packing"
    [] t = "ref:" -> "ref"
    [] t = "seller:" -> "seller"
    [] t = "shipper:" -> "shipper"
    [] Len(t) < 3 -> ""
    [] OTHER -> t

\* re.findall of the (?:no|number|ref)[.:\s]+(...) pattern, left to right,
\* matches not overlapping.
RECURSIVE FindAllRef(_, _)
FindAllRef(text_lower, i) ==
  IF i >= Len(text_lower) THEN <<>>
  ELSE IF IsMarker(text_lower[i]) /\ Capture(text_lower[i + 1]) # ""
       THEN <<Capture(text_lower[i + 1])>> \o FindAllRef(text_lower, i + 2)
       ELSE FindAllRef(text_lower, i + 1)

\* The token is matched whole by ([a-z]{2,4}[-_/]\d{3,8}); no token of the
\* vocabulary matches the digit-led or letters-then-digits shapes.
IsLetterDashDigits(t) == t \in {"bl-900", "inv-001", "inv-002", "po-123"}

\* re.findall of ([a-z]{2,4}[-_/]\d{3,8})
FindAllShape(text_lower) ==
  SelectSeq(text_lower, IsLetterDashDigits)

\* text.split() of one lower-case token
Words(t) ==
  CASE t = "commercial invoice" -> {"commercial", "invoice"}
    [] t = "invoice no:" -> {"invoice", "no:"}
    [] t = "bill of lading" -> {"bill", "of", "lading"}
    [] t = "b/l no:" -> {"b/l", "no:"}
    [] t = "packing list" -> {"packing", "list"}
    [] t = "gross weight" -> {"gross", "weight"}
    [] t = "health certificate" -> {"health", "certificate"}
    [] t = "net weight" -> {"net", "weight"}
    [] OTHER -> {t}

\* set(text.lower().split())
WordSet(text_lower) == UNION {Words(text_lower[i]) : i \in DOMAIN text_lower}

\* s[:n]
Prefix(s, n) ==
  IF Len(s) <= n THEN s
  ELSE CASE s = "commercial" /\ n = 8 -> "commerci"
         [] s = "processing" /\ n = 8 -> "processi"
         [] s = "continued" /\ n = 8 -> "continue"
         [] s = "extracted" /\ n = 8 -> "extracte"
         [] OTHER -> s

\* len(text): the tokens and the blanks between them.
RECURSIVE CharLen(_)
CharLen(text) ==
  IF text = <<>> THEN 0
  ELSE Len(text[1]) + (IF Len(text) > 1 THEN 1 ELSE 0) + CharLen(Tail(text))

\* len(' '.join(texts))
JoinedLen(texts) ==
  IF texts = <<>> THEN 0
  ELSE SeqSum([i \in DOMAIN texts |-> CharLen(texts[i])]) + Len(texts) - 1

\* str(n) as a token
NumTok(n) == ToString(n)

\* The separator '\n\n--- PAGE BREAK ---\n\n' of the merged text
PageBreakLen == 22

(***************************************************************************)
(* The corpus of page texts                                                *)
(***************************************************************************)

EmptyText == <<>>
Inv1Text == <<"COMMERCIAL INVOICE", "Invoice No:", "INV-001", "Seller:", "Buyer:">>
Inv2Text == <<"COMMERCIAL INVOICE", "Invoice No:", "INV-002">>
ContText == <<"continued", "goods">>
BLText == <<"BILL OF LADING", "B/L No:", "BL-900", "Shipper:">>
PackText == <<"PACKING LIST", "Gross Weight">>
AttachText == <<"Ref:", "INV-001", "PO-123">>

CorpusTexts == {EmptyText, Inv1Text, Inv2Text, ContText, BLText, PackText, AttachText}

\* Pages whose header line is missing (the body of an invoice without its
\* title, a page of running text of no recognisable type) and a page that
\* is nothing but a title.
DetailText == <<"Invoice No:", "INV-001", "Seller:", "Buyer:">>
NotesText == <<"continued", "goods", "continued", "goods">>
HealthText == <<"HEALTH CERTIFICATE">>

\* A page of the PDF: the text the text layer or the OCR yields, or a page
\* whose extraction raises.
TextPage(t) == [ok |-> TRUE, text |-> t]
FailingPage == [ok |-> FALSE, text |-> <<>>]
Corpus == {TextPage(t) : t \in CorpusTexts} \cup {FailingPage}


(***************************************************************************)
(* State                                                                   *)
(***************************************************************************)

VARIABLES
  script,          \* the script that is run on the PDF
  doc,             \* the pages of the PDF, doc[1] .. doc[total_pages]
  run,             \* 1: the first run of the script, 2: the run repeated
  first_forms,     \* the detected_forms of the first run
  pc,              \* "start", "group" (a grouping loop is under way), "done"
  page_data,       \* the page entries an extraction loop has collected
  page_num,        \* the pages (or page entries) the loop has consumed
  current_doc,     \* the loop's accumulator, None before the first page
  documents,       \* the records appended so far
  doc_counter,     \* preciseDocumentAnalyzer's running document id
  detected_forms,  \* the 'detected_forms' of the returned result
  error,           \* the returned result carries an 'error' key
  document_patterns, \* self.document_patterns of the DocumentClassifier, None
                   \* in a script that makes no DocumentClassifier
  classification   \* what a classifier called on its own has returned

vars == <<script, doc, run, first_forms, pc, page_data, page_num, current_doc,
          documents, doc_counter, detected_forms, error, document_patterns,
          classification>>

total_pages == Len(doc)

\* The accumulator before the loop: None, [] (ocrDocumentAnalyzer's
\* current_doc_pages) or 0 (fastDocumentAnalyzer's current_doc_start).
InitialAccumulator(s) ==
  CASE s \in {"ocr", "enhanced"} -> <<>>
    [] s = "fast" -> 0
    [] OTHER -> [type |-> "None"]

\* Python's None
None == [type |-> "None"]

\* A page_range that names the first page only.
PageRangeFirstOnly(pages) == <<"Page", pages[1]>>

\* "Page N" and "Pages N-M"
PageRange(pages) ==
  IF Len(pages) = 1 THEN <<"Page", pages[1]>>
  ELSE <<"Pages", SeqMin(pages), SeqMax(pages)>>

\* The elements list(set(numbers)) can have at index 0: str hashes are
\* salted per process, so any element of the set can come first.
FirstOf(numbers) == IF numbers = {} THEN {""} ELSE numbers

(***************************************************************************)
(* preciseDocumentAnalyzer.py                                              *)
(***************************************************************************)

precise_patterns ==
  <<[keywords |-> <<"letter of credit", "documentary credit", "l/c no", "issuing bank", "beneficiary">>, doc_type |-> "Letter of Credit", base_confidence |-> 950],
    [keywords |-> <<"commercial invoice", "invoice no", "proforma", "seller", "buyer">>, doc_type |-> "Commercial Invoice", base_confidence |-> 900],
    [keywords |-> <<"bill of lading", "b/l no", "ocean bill", "shipper", "consignee">>, doc_type |-> "Bill of Lading", base_confidence |-> 900],
    [keywords |-> <<"certificate of origin", "country of origin", "chamber of commerce">>, doc_type |-> "Certificate of Origin", base_confidence |-> 900],
    [keywords |-> <<"packing list", "package list", "gross weight", "net weight">>, doc_type |-> "Packing List", base_confidence |-> 850],
    [keywords |-> <<"insurance certificate", "marine insurance", "policy no">>, doc_type |-> "Insurance Certificate", base_confidence |-> 850],
    [keywords |-> <<"inspection certificate", "quality certificate", "survey">>, doc_type |-> "Inspection Certificate", base_confidence |-> 800],
    [keywords |-> <<"bill of exchange", "draft", "drawer", "drawee">>, doc_type |-> "Bill of Exchange", base_confidence |-> 850],
    [keywords |-> <<"bank guarantee", "performance guarantee", "guarantor">>, doc_type |-> "Bank Guarantee", base_confidence |-> 800],
    [keywords |-> <<"customs declaration", "export declaration">>, doc_type |-> "Customs Declaration", base_confidence |-> 800],
    [keywords |-> <<"transport document", "freight forwarder", "multimodal">>, doc_type |-> "Transport Document", base_confidence |-> 750],
    [keywords |-> <<"weight certificate", "weighing certificate">>, doc_type |-> "Weight Certificate", base_confidence |-> 750],
    [keywords |-> <<"health certificate", "sanitary certificate">>, doc_type |-> "Health Certificate", base_confidence |-> 750],
    [keywords |-> <<"fumigation certificate", "phytosanitary">>, doc_type |-> "Fumigation Certificate", base_confidence |-> 750],
    [keywords |-> <<"analysis certificate", "laboratory">>, doc_type |-> "Analysis Certificate", base_confidence |-> 700],
    [keywords |-> <<"certificate", "certified">>, doc_type |-> "Certificate", base_confidence |-> 600],
    [keywords |-> <<"receipt", "acknowledgment">>, doc_type |-> "Receipt", base_confidence |-> 500]>>

\* sum(1 for keyword in keywords if keyword in text_lower)
CountMatches(keywords, text_lower) ==
  Cardinality({k \in DOMAIN keywords : Contains(text_lower, keywords[k])})

\* The loop with 'confidence >= best_match[1]': the last of the best entries.
RECURSIVE BestMatchLastWins(_, _, _)
BestMatchLastWins(text_lower, i, best_match) ==
  IF i > Len(precise_patterns) THEN best_match
  ELSE LET p == precise_patterns[i]
           matches == CountMatches(p.keywords, text_lower)
           confidence == Min(p.base_confidence + (matches - 1) * 20, 980)
       IN  BestMatchLastWins(text_lower, i + 1,
             IF matches > 0 /\ confidence >= best_match[2]
             THEN <<p.doc_type, confidence>> ELSE best_match)

\* The for loop of classify_document_content from entry i on; best_match is
\* <<doc_type, confidence>>.
RECURSIVE PreciseBestMatch(_, _, _)
PreciseBestMatch(text_lower, i, best_match) ==
  IF i > Len(precise_patterns) THEN best_match
  ELSE LET p == precise_patterns[i]
           matches == CountMatches(p.keywords, text_lower)
           confidence == Min(p.base_confidence + (matches - 1) * 20, 980)
       IN  PreciseBestMatch(text_lower, i + 1,
             IF matches > 0 /\ confidence > best_match[2]
             THEN <<p.doc_type, confidence>> ELSE best_match)

\* The result of the loop for each page text of the PDFs, computed once.
ContentClasses ==
  [t \in CorpusTexts \cup {DetailText, NotesText, HealthText} |->
     PreciseBestMatch(LowerText(t), 1, <<"Trade Finance Document", 300>>)]

classify_document_content(text) ==
  IF text \in DOMAIN ContentClasses THEN ContentClasses[text]
  ELSE PreciseBestMatch(LowerText(text), 1, <<"Trade Finance Document", 300>>)

\* What a function that raises hands to its caller: no value.
Raised == [type |-> "raised"]

\* analyze_page_content without its try/except: the exception of a page
\* that cannot be read goes to the caller.
AnalyzeUnguarded(page, pnum) ==
  IF page.ok
  THEN LET c == classify_document_content(page.text)
       IN  [type |-> c[1], text |-> page.text, confidence |-> c[2], page_num |-> pnum]
  ELSE Raised

analyze_page_content(page, pnum) ==
  IF page.ok
  THEN LET c == classify_document_content(page.text)
       IN  [type |-> c[1], text |-> page.text, confidence |-> c[2], page_num |-> pnum]
  ELSE [type |-> "Unknown", text |-> <<"Error", "processing", "page", NumTok(pnum)>>,
        confidence |-> 100, page_num |-> pnum]

\* The set that list(set(numbers)) is built from.
extract_document_numbers(text) ==
  LET text_lower == LowerText(text)
  IN  Range(FindAllRef(text_lower, 1)) \cup Range(FindAllShape(text_lower))

\* The boundary rules with a type change counted at any confidence: the
\* continuation page of scenario A (C7) would then open a document.
StartOnAnyTypeChange(cur, page_info, pnum) ==
  IF cur = None THEN TRUE
  ELSE IF page_info.type # cur.type THEN TRUE
  ELSE LET current_numbers == extract_document_numbers(Flatten(cur.texts))
           page_numbers == extract_document_numbers(page_info.text)
       IN  IF /\ current_numbers # {} /\ page_numbers # {}
              /\ ~ \E num \in current_numbers : num \in page_numbers
           THEN TRUE
           ELSE Len(cur.pages) > 5 /\ page_info.confidence > 800

\* The boundary rules without the run-length rule: scenario D (C10) needs it.
StartWithoutRunCap(cur, page_info, pnum) ==
  IF cur = None THEN TRUE
  ELSE IF page_info.type # cur.type /\ page_info.confidence > 700 THEN TRUE
  ELSE LET current_numbers == extract_document_numbers(Flatten(cur.texts))
           page_numbers == extract_document_numbers(page_info.text)
       IN  /\ current_numbers # {} /\ page_numbers # {}
           /\ ~ \E num \in current_numbers : num \in page_numbers

\* The boundary rules without the type-change rule (C21).
StartWithoutTypeRule(cur, page_info, pnum) ==
  IF cur = None THEN TRUE
  ELSE LET current_numbers == extract_document_numbers(Flatten(cur.texts))
           page_numbers == extract_document_numbers(page_info.text)
       IN  IF /\ current_numbers # {} /\ page_numbers # {}
              /\ ~ \E num \in current_numbers : num \in page_numbers
           THEN TRUE
           ELSE Len(cur.pages) > 5 /\ page_info.confidence > 800

should_start_new_document(cur, page_info, pnum) ==
  IF cur = None THEN TRUE
  ELSE IF page_info.type # cur.type /\ page_info.confidence > 700 THEN TRUE
  ELSE LET current_numbers == extract_document_numbers(Flatten(cur.texts))
           page_numbers == extract_document_numbers(page_info.text)
       IN  IF /\ current_numbers # {} /\ page_numbers # {}
              /\ ~ \E num \in current_numbers : num \in page_numbers
           THEN TRUE
           ELSE Len(cur.pages) > 5 /\ page_info.confidence > 800

\* first is doc_numbers[0], one of FirstOf(doc_numbers).
finalize_document(doc_info, doc_id, first) ==
  LET pages == doc_info.pages
      doc_numbers == extract_document_numbers(Flatten(doc_info.texts))
  IN  [form_type |-> IF doc_numbers # {}
                     THEN <<doc_info.type, Prefix(first, 8)>>
                     ELSE <<doc_info.type, "SET", doc_id>>,
       document_type |-> doc_info.type,
       confidence |-> doc_info.confidence,
       pages |-> pages,
       page_range |-> PageRange(pages),
       text_length |-> JoinedLen(doc_info.texts)]

\* Chunks without the last, shorter slice: the chunking C1 would not survive.
ChunksWithoutRemainder(pages, chunk_size) ==
  [k \in 1..(Len(pages) \div chunk_size) |->
     SubSeq(pages, (k - 1) * chunk_size + 1, k * chunk_size)]

\* pages[i:i + chunk_size] for i in range(0, len(pages), chunk_size)
Chunks(pages, chunk_size) ==
  [k \in 1..((Len(pages) + chunk_size - 1) \div chunk_size) |->
     SubSeq(pages, (k - 1) * chunk_size + 1, Min(k * chunk_size, Len(pages)))]

\* The records that replace one record of more than 3 pages.
SplitDocument(d) ==
  LET chunks == Chunks(d.pages, Max(1, Len(d.pages) \div 3))
  IN  [i \in DOMAIN chunks |->
         [form_type |-> <<d.document_type, "PART", i>>,
          document_type |-> d.document_type,
          confidence |-> (d.confidence * 9) \div 10,
          pages |-> chunks[i],
          page_range |-> PageRange(chunks[i]),
          text_length |-> Len(chunks[i]) * 100]]

\* A splitting pass that also cuts the records of 2 and 3 pages, which C27
\* says are returned as they are.
SplitAnyDocument(docs, n) ==
  IF Len(docs) >= 15 THEN docs
  ELSE Flatten([k \in DOMAIN docs |->
                  IF Len(docs[k].pages) > 1 THEN SplitDocument(docs[k])
                  ELSE <<docs[k]>>])

apply_intelligent_splitting(docs, n) ==
  IF Len(docs) >= 15 THEN docs
  ELSE Flatten([k \in DOMAIN docs |->
                  IF Len(docs[k].pages) > 3 THEN SplitDocument(docs[k])
                  ELSE <<docs[k]>>])

\* A new document that records the loop index of its first page and not the
\* page number: the first document would then begin at page 0 (C28).
NewDocZeroBased(page_info) ==
  [type |-> page_info.type, pages |-> <<page_info.page_num - 1>>,
   texts |-> <<page_info.text>>, confidence |-> page_info.confidence]

NewDoc(page_info) ==
  [type |-> page_info.type, pages |-> <<page_info.page_num>>,
   texts |-> <<page_info.text>>, confidence |-> page_info.confidence]

\* One iteration of the page loop of analyze_document_precisely.
PrecisePage ==
  /\ script = "precise" /\ pc = "start" /\ page_num < total_pages
  /\ LET page_info == analyze_page_content(doc[page_num + 1], page_num + 1)
     IN  IF page_info = Raised
         THEN \* 'except Exception as e' of analyze_document_precisely
              /\ error' = TRUE
              /\ detected_forms' = <<>>
              /\ pc' = "done"
              /\ UNCHANGED <<current_doc, documents, doc_counter, page_num>>
         ELSE
         /\ IF should_start_new_document(current_doc, page_info, page_num)
            THEN /\ IF current_doc # None
                    THEN /\ \E first \in FirstOf(extract_document_numbers(Flatten(current_doc.texts))) :
                              documents' = Append(documents,
                                             finalize_document(current_doc, doc_counter, first))
                         /\ doc_counter' = doc_counter + 1
                    ELSE UNCHANGED <<documents, doc_counter>>
                 /\ current_doc' = NewDoc(page_info)
            ELSE /\ current_doc' =
                      IF current_doc # None
                      THEN [current_doc EXCEPT
                              !.pages = Append(@, page_num + 1),
                              !.texts = Append(@, page_info.text),
                              !.confidence = Max(@, page_info.confidence)]
                      ELSE NewDoc(page_info)
                 /\ UNCHANGED <<documents, doc_counter>>
         /\ page_num' = page_num + 1
         /\ UNCHANGED <<pc, detected_forms, error>>
  /\ UNCHANGED <<document_patterns, classification>>
  /\ UNCHANGED <<script, doc, run, first_forms, page_data>>

\* After the loop: the final document, the splitting pass, the result.
PreciseReturn ==
  /\ script = "precise" /\ pc = "start" /\ page_num = total_pages
  /\ \E first \in FirstOf(IF current_doc = None THEN {}
                          ELSE extract_document_numbers(Flatten(current_doc.texts))) :
       LET all == IF current_doc # None
                  THEN Append(documents, finalize_document(current_doc, doc_counter, first))
                  ELSE documents
       IN  /\ documents' = all
           /\ detected_forms' = IF Len(all) < 10
                                THEN apply_intelligent_splitting(all, total_pages)
                                ELSE all
  /\ pc' = "done"
  /\ UNCHANGED <<document_patterns, classification>>
  /\ UNCHANGED <<script, doc, run, first_forms, page_data, page_num, current_doc,
                 doc_counter, error>>

(***************************************************************************)
(* ocrDocumentAnalyzer.py                                                  *)
(***************************************************************************)

ocr_doc_patterns ==
  <<[keywords |-> <<"letter of credit", "documentary credit", "l/c", "issuing bank", "beneficiary">>, doc_type |-> "letter_of_credit"],
    [keywords |-> <<"commercial invoice", "proforma invoice", "invoice no", "seller", "buyer">>, doc_type |-> "commercial_invoice"],
    [keywords |-> <<"bill of lading", "ocean bill", "b/l", "shipper", "consignee", "vessel">>, doc_type |-> "bill_of_lading"],
    [keywords |-> <<"certificate of origin", "country of origin", "chamber of commerce">>, doc_type |-> "certificate_of_origin"],
    [keywords |-> <<"packing list", "package list", "gross weight", "net weight", "packages">>, doc_type |-> "packing_list"],
    [keywords |-> <<"insurance certificate", "marine insurance", "policy no", "coverage">>, doc_type |-> "insurance_certificate"],
    [keywords |-> <<"inspection certificate", "quality certificate", "test certificate">>, doc_type |-> "inspection_certificate"],
    [keywords |-> <<"bill of exchange", "draft", "drawer", "drawee", "tenor">>, doc_type |-> "bill_of_exchange"],
    [keywords |-> <<"bank guarantee", "performance guarantee", "guarantor">>, doc_type |-> "bank_guarantee"],
    [keywords |-> <<"customs declaration", "export declaration", "import declaration">>, doc_type |-> "customs_declaration"],
    [keywords |-> <<"weight certificate", "weighing certificate", "analysis certificate">>, doc_type |-> "weight_certificate"],
    [keywords |-> <<"transport document", "freight forwarder", "multimodal transport">>, doc_type |-> "transport_document"],
    [keywords |-> <<"health certificate", "sanitary certificate", "veterinary">>, doc_type |-> "health_certificate"],
    [keywords |-> <<"fumigation certificate", "phytosanitary", "treatment certificate">>, doc_type |-> "fumigation_certificate"]>>

ocr_header_patterns ==
  <<{"letter of credit", "l/c", "documentary credit"},
    {"commercial invoice", "proforma invoice"},
    {"bill of lading", "ocean bill", "b/l"},
    {"certificate of origin", "origin certificate"},
    {"packing list", "package list"},
    {"insurance certificate", "marine insurance"},
    {"inspection certificate", "quality certificate"},
    {"bill of exchange", "draft"},
    {"bank guarantee", "performance guarantee"},
    {"customs declaration", "export declaration"},
    {"weight certificate", "analysis certificate"},
    {"freight forwarder", "transport document"},
    {"health certificate", "phytosanitary"},
    {"fumigation certificate", "treatment certificate"}>>

\* The doc_type of the first entry of the catalog one of whose keywords is
\* in the text, else the fallback.
FirstMatch(catalog, text_lower, fallback) ==
  LET hits == {i \in DOMAIN catalog :
                 \E k \in DOMAIN catalog[i].keywords :
                    Contains(text_lower, catalog[i].keywords[k])}
  IN  IF hits = {} THEN fallback
      ELSE catalog[CHOOSE i \in hits : \A j \in hits : i <= j].doc_type

classify_page_content(text) == FirstMatch(ocr_doc_patterns, LowerText(text), "unknown")

extract_numbers(text) ==
  LET text_lower == LowerText(text)
  IN  Range(FindAllRef(text_lower, 1)) \cup Range(FindAllShape(text_lower))

\* len(intersection) / len(union) as the pair <<numerator, denominator>>;
\* 0.0 is <<0, 1>>.
calculate_similarity(text1, text2) ==
  LET words1 == WordSet(LowerText(text1))
      words2 == WordSet(LowerText(text2))
  IN  IF words1 = {} \/ words2 = {} THEN <<0, 1>>
      ELSE <<Cardinality(words1 \cap words2), Cardinality(words1 \cup words2)>>

\* similarity < bound / 1000
Below(similarity, bound) == similarity[1] * 1000 < bound * similarity[2]

get_document_type_name(internal_type) ==
  CASE internal_type = "letter_of_credit" -> "Letter of Credit"
    [] internal_type = "commercial_invoice" -> "Commercial Invoice"
    [] internal_type = "bill_of_lading" -> "Bill of Lading"
    [] internal_type = "certificate_of_origin" -> "Certificate of Origin"
    [] internal_type = "packing_list" -> "Packing List"
    [] internal_type = "insurance_certificate" -> "Insurance Certificate"
    [] internal_type = "inspection_certificate" -> "Inspection Certificate"
    [] internal_type = "bill_of_exchange" -> "Bill of Exchange"
    [] internal_type = "bank_guarantee" -> "Bank Guarantee"
    [] internal_type = "customs_declaration" -> "Customs Declaration"
    [] internal_type = "weight_certificate" -> "Weight Certificate"
    [] internal_type = "transport_document" -> "Transport Document"
    [] internal_type = "health_certificate" -> "Health Certificate"
    [] internal_type = "fumigation_certificate" -> "Fumigation Certificate"
    [] OTHER -> "Trade Finance Document"

PageTexts(pages) == [i \in DOMAIN pages |-> pages[i].text]

is_new_document_start(prev_page, current_page, current_doc_pages) ==
  LET prev_text == LowerText(prev_page.text)
      current_text == LowerText(current_page.text)
      prev_type == classify_page_content(prev_text)
      current_type == classify_page_content(current_text)
      has_header == \E k \in DOMAIN ocr_header_patterns :
                       Search(ocr_header_patterns[k], current_text)
      current_doc_text == LowerText(Flatten(PageTexts(current_doc_pages)))
      prev_numbers == extract_numbers(prev_text)
      current_numbers == extract_numbers(current_text)
      similarity == calculate_similarity(prev_text, current_text)
  IN  IF prev_type # current_type /\ current_type # "unknown" THEN TRUE
      ELSE IF /\ has_header
              /\ ~ \E k \in DOMAIN ocr_header_patterns :
                     /\ Search(ocr_header_patterns[k], current_text)
                     /\ Search(ocr_header_patterns[k], current_doc_text)
      THEN TRUE
      ELSE IF /\ prev_numbers # {} /\ current_numbers # {}
              /\ ~ \E num \in prev_numbers : num \in current_numbers
      THEN TRUE
      ELSE IF Below(similarity, 200) /\ has_header THEN TRUE
      ELSE Len(current_doc_pages) > 3 /\ Below(similarity, 100)

calculate_confidence(texts, doc_type) ==
  LET n == JoinedLen(texts)
      base_confidence ==
        750 + (IF n > 500 THEN 100 ELSE 0) + (IF n > 1000 THEN 100 ELSE 0)
            + (IF Contains(LowerText(Flatten(texts)), Lower(doc_type)) THEN 50 ELSE 0)
  IN  Min(base_confidence, 950)

\* first is list(doc_numbers)[0], one of FirstOf(doc_numbers).
create_document_set(pages, first) ==
  LET texts == PageTexts(pages)
      doc_type == get_document_type_name(classify_page_content(Flatten(texts)))
      doc_numbers == extract_numbers(Flatten(texts))
      page_numbers == [i \in DOMAIN pages |-> pages[i].page_number]
  IN  [form_type |-> IF doc_numbers # {} THEN <<doc_type, Prefix(first, 10)>>
                     ELSE <<doc_type>>,
       document_type |-> doc_type,
       confidence |-> calculate_confidence(texts, doc_type),
       pages |-> page_numbers,
       page_range |-> PageRange(page_numbers),
       text_length |-> JoinedLen(texts)]

\* The page entry the OCR loop of analyze_scanned_document appends.
OcrPageEntry(page, pnum) ==
  IF ~ page.ok
  THEN [page_number |-> pnum,
        text |-> <<"Page", NumTok(pnum), "-", "processing", "failed">>,
        text_length |-> 30]
  ELSE IF CharLen(page.text) > 20
  THEN [page_number |-> pnum, text |-> page.text, text_length |-> CharLen(page.text)]
  ELSE [page_number |-> pnum,
        text |-> <<"Scanned", "page", NumTok(pnum), "-", "minimal", "text", "extracted">>,
        text_length |-> 50]

\* The OCR loop of analyze_scanned_document over all pages.
OcrExtract ==
  /\ script = "ocr" /\ pc = "start"
  /\ page_data' = [i \in 1..total_pages |-> OcrPageEntry(doc[i], i)]
  /\ pc' = "group"
  /\ UNCHANGED <<document_patterns, classification>>
  /\ UNCHANGED <<script, doc, run, first_forms, page_num, current_doc, documents,
                 doc_counter, detected_forms, error>>

\* One iteration of the loop of identify_document_sets; current_doc is
\* current_doc_pages.
OcrPage ==
  /\ script = "ocr" /\ pc = "group" /\ page_num < Len(page_data)
  /\ LET page == page_data[page_num + 1]
     IN  IF page_num = 0
         THEN /\ current_doc' = <<page>>
              /\ UNCHANGED documents
         ELSE IF is_new_document_start(page_data[page_num], page, current_doc)
         THEN /\ \E first \in FirstOf(extract_numbers(Flatten(PageTexts(current_doc)))) :
                   documents' = Append(documents, create_document_set(current_doc, first))
              /\ current_doc' = <<page>>
         ELSE /\ current_doc' = Append(current_doc, page)
              /\ UNCHANGED documents
  /\ page_num' = page_num + 1
  /\ UNCHANGED <<document_patterns, classification>>
  /\ UNCHANGED <<script, doc, run, first_forms, pc, page_data, doc_counter,
                 detected_forms, error>>

\* The final document of identify_document_sets and the returned result.
OcrReturn ==
  /\ script = "ocr" /\ pc = "group" /\ page_num = Len(page_data)
  /\ \E first \in FirstOf(extract_numbers(Flatten(PageTexts(current_doc)))) :
       LET all == IF current_doc # <<>>
                  THEN Append(documents, create_document_set(current_doc, first))
                  ELSE documents
       IN  documents' = all /\ detected_forms' = all
  /\ pc' = "done"
  /\ UNCHANGED <<document_patterns, classification>>
  /\ UNCHANGED <<script, doc, run, first_forms, page_data, page_num, current_doc,
                 doc_counter, error>>

(***************************************************************************)
(* fastDocumentAnalyzer.py                                                 *)
(***************************************************************************)

fast_doc_types ==
  <<[keywords |-> <<"letter of credit", "documentary credit", "l/c", "issuing bank">>, doc_type |-> "Letter of Credit"],
    [keywords |-> <<"commercial invoice", "invoice", "seller", "buyer">>, doc_type |-> "Commercial Invoice"],
    [keywords |-> <<"bill of lading", "b/l", "shipper", "consignee", "vessel">>, doc_type |-> "Bill of Lading"],
    [keywords |-> <<"certificate of origin", "country of origin", "chamber">>, doc_type |-> "Certificate of Origin"],
    [keywords |-> <<"packing list", "gross weight", "net weight", "packages">>, doc_type |-> "Packing List"],
    [keywords |-> <<"insurance", "policy", "coverage", "marine insurance">>, doc_type |-> "Insurance Certificate"],
    [keywords |-> <<"inspection", "quality", "test", "laboratory">>, doc_type |-> "Inspection Certificate"],
    [keywords |-> <<"bill of exchange", "draft", "drawer", "drawee">>, doc_type |-> "Bill of Exchange"],
    [keywords |-> <<"guarantee", "guarantor", "performance">>, doc_type |-> "Bank Guarantee"],
    [keywords |-> <<"transport", "freight", "shipping", "cargo">>, doc_type |-> "Transport Document"],
    [keywords |-> <<"customs", "declaration", "tariff">>, doc_type |-> "Customs Declaration"],
    [keywords |-> <<"certificate", "certification">>, doc_type |-> "Certificate"],
    [keywords |-> <<"receipt", "acknowledgment">>, doc_type |-> "Receipt"]>>

fast_new_doc_patterns ==
  <<{"letter of credit", "commercial invoice", "bill of lading", "certificate"},
    {"packing list", "insurance", "inspection", "quality"},
    {"bill of exchange", "draft", "guarantee", "declaration", "receipt"},
    {"customs", "freight", "transport", "shipping"},
    {"no[.:\\s]", "number[.:\\s]", "ref[.:\\s]"},
    {"certificate", "invoice", "bill", "document"},
    {"issued", "date", "to whom"},
    {"we hereby", "this is to", "in accordance"},
    {"certify that", "declare that", "confirm that"},
    {"the undersigned", "it is certified"},
    {"amount", "value", "quantity", "weight"},
    {"shipper", "consignee", "beneficiary", "applicant"},
    {"origin", "destination", "port", "vessel"}>>

fast_type_keywords ==
  <<[doc_type |-> "Letter of Credit", keywords |-> <<"credit", "issuing bank", "beneficiary", "applicant">>],
    [doc_type |-> "Commercial Invoice", keywords |-> <<"invoice", "seller", "buyer", "amount">>],
    [doc_type |-> "Bill of Lading", keywords |-> <<"lading", "shipper", "consignee", "vessel">>],
    [doc_type |-> "Certificate of Origin", keywords |-> <<"origin", "country", "manufacturer">>],
    [doc_type |-> "Packing List", keywords |-> <<"packing", "weight", "packages">>],
    [doc_type |-> "Insurance Certificate", keywords |-> <<"insurance", "policy", "coverage">>],
    [doc_type |-> "Inspection Certificate", keywords |-> <<"inspection", "quality", "test">>],
    [doc_type |-> "Bill of Exchange", keywords |-> <<"exchange", "drawer", "drawee">>]>>

fast_classify_document_type(text) ==
  FirstMatch(fast_doc_types, LowerText(text), "Unknown")

fast_extract_document_numbers(text) ==
  LET text_lower == LowerText(text)
  IN  Range(FindAllRef(text_lower, 1)) \cup Range(FindAllShape(text_lower))

calculate_text_similarity(text1, text2) ==
  LET words1 == WordSet(LowerText(text1))
      words2 == WordSet(LowerText(text2))
  IN  IF words1 = {} \/ words2 = {} THEN <<0, 1>>
      ELSE <<Cardinality(words1 \cap words2), Cardinality(words1 \cup words2)>>

detect_document_boundary(prev_page, current_page) ==
  LET prev_text == LowerText(prev_page.text)
      current_text == LowerText(current_page.text)
      prev_doc_type == fast_classify_document_type(prev_text)
      current_doc_type == fast_classify_document_type(current_text)
      has_doc_indicators == \E k \in DOMAIN fast_new_doc_patterns :
                               Search(fast_new_doc_patterns[k], current_text)
      similarity == calculate_text_similarity(prev_text, current_text)
      prev_numbers == fast_extract_document_numbers(prev_text)
      current_numbers == fast_extract_document_numbers(current_text)
  IN  IF prev_doc_type # current_doc_type /\ current_doc_type # "Unknown" THEN TRUE
      ELSE IF has_doc_indicators /\ Below(similarity, 300) THEN TRUE
      ELSE IF /\ prev_numbers # {} /\ current_numbers # {}
              /\ ~ \E num \in prev_numbers : num \in current_numbers
      THEN TRUE
      ELSE Below(similarity, 150) /\ has_doc_indicators

calculate_document_confidence(texts, doc_type) ==
  LET text_lower == LowerText(Flatten(texts))
      known == {i \in DOMAIN fast_type_keywords : fast_type_keywords[i].doc_type = doc_type}
      keyword_matches ==
        IF known = {} THEN 0
        ELSE CountMatches(fast_type_keywords[CHOOSE i \in known : TRUE].keywords, text_lower)
  IN  Min(700 + Min(keyword_matches * 50, 250), 950)

\* first is list(doc_numbers)[0], one of FirstOf(doc_numbers).
create_document_from_pages(pages, first) ==
  LET texts == PageTexts(pages)
      doc_type == fast_classify_document_type(Flatten(texts))
      doc_numbers == fast_extract_document_numbers(Flatten(texts))
      page_numbers == [i \in DOMAIN pages |-> pages[i].page_number]
  IN  [form_type |-> IF doc_numbers # {} THEN <<doc_type, Prefix(first, 10)>>
                     ELSE <<doc_type>>,
       document_type |-> doc_type,
       confidence |-> calculate_document_confidence(texts, doc_type),
       pages |-> page_numbers,
       page_range |-> PageRange(page_numbers),
       text_length |-> JoinedLen(texts)]

\* The text loop of analyze_real_document: page.get_text() is outside any
\* try of the loop, so a page that raises ends the run in the outer except;
\* a page of at most 5 characters gets no entry.
FastExtract ==
  /\ script = "fast" /\ pc = "start"
  /\ IF \E i \in 1..total_pages : ~ doc[i].ok
     THEN /\ error' = TRUE
          /\ pc' = "done"
          /\ UNCHANGED page_data
     ELSE /\ page_data' =
               LET kept == SelectSeq([i \in 1..total_pages |-> i],
                                     LAMBDA i : CharLen(doc[i].text) > 5)
               IN  [k \in DOMAIN kept |->
                      [page_number |-> kept[k], text |-> doc[kept[k]].text,
                       text_length |-> CharLen(doc[kept[k]].text)]]
          /\ pc' = "group"
          /\ UNCHANGED error
  /\ UNCHANGED <<document_patterns, classification>>
  /\ UNCHANGED <<script, doc, run, first_forms, page_num, current_doc, documents,
                 doc_counter, detected_forms>>

\* One iteration of the loop of identify_document_boundaries; current_doc is
\* current_doc_start.
FastPage ==
  /\ script = "fast" /\ pc = "group" /\ page_num < Len(page_data)
  /\ LET i == page_num
         is_new_document ==
           IF i = 0 THEN TRUE
           ELSE detect_document_boundary(page_data[i], page_data[i + 1])
         doc_pages == SubSeq(page_data, current_doc + 1, i)
     IN  IF is_new_document /\ i > 0
         THEN /\ \E first \in FirstOf(fast_extract_document_numbers(Flatten(PageTexts(doc_pages)))) :
                   documents' = Append(documents, create_document_from_pages(doc_pages, first))
              /\ current_doc' = i
         ELSE UNCHANGED <<documents, current_doc>>
  /\ page_num' = page_num + 1
  /\ UNCHANGED <<document_patterns, classification>>
  /\ UNCHANGED <<script, doc, run, first_forms, pc, page_data, doc_counter,
                 detected_forms, error>>

\* The last document of identify_document_boundaries and the returned
\* result; no page entry at all returns [].
FastReturn ==
  /\ script = "fast" /\ pc = "group" /\ page_num = Len(page_data)
  /\ LET doc_pages == SubSeq(page_data, current_doc + 1, Len(page_data))
     IN  \E first \in FirstOf(fast_extract_document_numbers(Flatten(PageTexts(doc_pages)))) :
           LET all == IF page_data # <<>> /\ current_doc < Len(page_data)
                      THEN Append(documents, create_document_from_pages(doc_pages, first))
                      ELSE documents
           IN  documents' = all /\ detected_forms' = all
  /\ pc' = "done"
  /\ UNCHANGED <<document_patterns, classification>>
  /\ UNCHANGED <<script, doc, run, first_forms, page_data, page_num, current_doc,
                 doc_counter, error>>

(***************************************************************************)
(* realDocumentProcessor.py                                                *)
(***************************************************************************)

real_document_patterns ==
  <<[keywords |-> <<"letter of credit", "documentary credit", "l/c no", "lc no", "credit no", "issuing bank", "beneficiary">>, doc_type |-> "Letter of Credit", base_confidence |-> 950],
    [keywords |-> <<"commercial invoice", "invoice no", "inv no", "seller", "buyer", "invoice date">>, doc_type |-> "Commercial Invoice", base_confidence |-> 900],
    [keywords |-> <<"bill of lading", "b/l no", "bl no", "shipper", "consignee", "vessel", "ocean bill">>, doc_type |-> "Bill of Lading", base_confidence |-> 900],
    [keywords |-> <<"certificate of origin", "origin certificate", "country of origin", "chamber of commerce">>, doc_type |-> "Certificate of Origin", base_confidence |-> 900],
    [keywords |-> <<"packing list", "package list", "gross weight", "net weight", "dimensions", "packages">>, doc_type |-> "Packing List", base_confidence |-> 850],
    [keywords |-> <<"insurance certificate", "policy no", "marine insurance", "cargo insurance", "coverage">>, doc_type |-> "Insurance Certificate", base_confidence |-> 800],
    [keywords |-> <<"inspection certificate", "survey certificate", "quality certificate", "test certificate">>, doc_type |-> "Inspection Certificate", base_confidence |-> 800],
    [keywords |-> <<"bill of exchange", "draft", "drawer", "drawee", "payee", "tenor">>, doc_type |-> "Bill of Exchange", base_confidence |-> 800],
    [keywords |-> <<"transport document", "multimodal transport", "combined transport", "freight receipt">>, doc_type |-> "Transport Document", base_confidence |-> 750],
    [keywords |-> <<"bank guarantee", "guarantee no", "guarantor", "performance guarantee">>, doc_type |-> "Bank Guarantee", base_confidence |-> 800],
    [keywords |-> <<"fumigation certificate", "phytosanitary", "plant health", "pest control">>, doc_type |-> "Fumigation Certificate", base_confidence |-> 800],
    [keywords |-> <<"health certificate", "sanitary certificate", "veterinary certificate">>, doc_type |-> "Health Certificate", base_confidence |-> 800],
    [keywords |-> <<"weight certificate", "weighing certificate", "scale certificate">>, doc_type |-> "Weight Certificate", base_confidence |-> 750],
    [keywords |-> <<"quality analysis", "laboratory report", "test results", "chemical analysis">>, doc_type |-> "Quality Analysis", base_confidence |-> 750],
    [keywords |-> <<"payment receipt", "receipt no", "payment confirmation", "remittance">>, doc_type |-> "Payment Receipt", base_confidence |-> 700],
    [keywords |-> <<"customs declaration", "export declaration", "import declaration">>, doc_type |-> "Customs Declaration", base_confidence |-> 750],
    [keywords |-> <<"freight invoice", "shipping charges", "freight charges">>, doc_type |-> "Freight Invoice", base_confidence |-> 700],
    [keywords |-> <<"certificate", "certification", "certified">>, doc_type |-> "Certificate", base_confidence |-> 600],
    [keywords |-> <<"receipt", "acknowledgment">>, doc_type |-> "Receipt", base_confidence |-> 500],
    [keywords |-> <<"declaration", "statement">>, doc_type |-> "Declaration", base_confidence |-> 500]>>

\* The list without its repeated elements, first occurrences kept in order.
RECURSIVE Unique(_)
Unique(s) ==
  IF s = <<>> THEN <<>>
  ELSE LET front == Unique(SubSeq(s, 1, Len(s) - 1))
           last == s[Len(s)]
       IN  IF last \in Range(front) THEN front ELSE Append(front, last)

\* The findall results of the five patterns in order; no token of the
\* vocabulary matches the third, fourth or fifth, and "id" ends none.
extract_document_identifiers(text) ==
  LET text_lower == LowerText(text)
      identifiers == FindAllRef(text_lower, 1) \o FindAllShape(text_lower)
      unique_identifiers == Unique(SelectSeq(identifiers, LAMBDA x : Len(x) >= 3))
  IN  SubSeq(unique_identifiers, 1, Min(3, Len(unique_identifiers)))

RECURSIVE RealBestMatch(_, _, _)
RealBestMatch(text_lower, i, best_match) ==
  IF i > Len(real_document_patterns) THEN best_match
  ELSE LET p == real_document_patterns[i]
           matches == CountMatches(p.keywords, text_lower)
           confidence == Min(p.base_confidence + (matches - 1) * 50, 980)
       IN  RealBestMatch(text_lower, i + 1,
             IF matches > 0 /\ confidence > best_match[2]
             THEN <<p.doc_type, confidence>> ELSE best_match)

\* <<doc_type, confidence>>, doc_type being the label <<type>> or
\* <<type, identifier>> for "type (identifier)".
analyze_document_type(text, pnum) ==
  LET doc_numbers == extract_document_identifiers(text)
      best_match == RealBestMatch(LowerText(text), 1, <<"Trade Finance Document", 300>>)
  IN  IF doc_numbers # <<>>
      THEN <<(<<best_match[1], Prefix(doc_numbers[1], 15)>>), best_match[2]>>
      ELSE <<(<<best_match[1]>>), best_match[2]>>

\* form_type.split('(')[0].strip(): no type name holds a parenthesis.
BaseType(form_type) == form_type[1]

Abs(x) == IF x < 0 THEN -x ELSE x

should_group_pages(current_group, new_page) ==
  IF current_group.form_type = new_page.form_type THEN TRUE
  ELSE LET current_base == BaseType(current_group.form_type)
           new_base == BaseType(new_page.form_type)
           last_page == current_group.pages[Len(current_group.pages)]
       IN  current_base = new_base /\ Abs(new_page.page_number - last_page) <= 2

NewGroup(page) ==
  [form_type |-> page.form_type, document_type |-> page.document_type,
   confidence |-> page.confidence, pages |-> <<page.page_number>>,
   page_range |-> <<"Page", page.page_number>>, text_length |-> page.text_length]

\* The page loop of extract_real_text_from_pdf: a page that raises is
\* skipped, and so is a page of at most 5 characters.
RealExtract ==
  /\ script = "real" /\ pc = "start"
  /\ page_data' =
       LET kept == SelectSeq([i \in 1..total_pages |-> i],
                             LAMBDA i : doc[i].ok /\ CharLen(doc[i].text) > 5)
       IN  [k \in DOMAIN kept |->
              LET a == analyze_document_type(doc[kept[k]].text, kept[k])
              IN  [page_number |-> kept[k], document_type |-> a[1], form_type |-> a[1],
                   confidence |-> a[2], text_length |-> CharLen(doc[kept[k]].text)]]
  /\ pc' = "group"
  /\ UNCHANGED <<document_patterns, classification>>
  /\ UNCHANGED <<script, doc, run, first_forms, page_num, current_doc, documents,
                 doc_counter, detected_forms, error>>

\* One iteration of the loop of group_documents_intelligently.
RealPage ==
  /\ script = "real" /\ pc = "group" /\ page_num < Len(page_data)
  /\ LET page == page_data[page_num + 1]
     IN  IF current_doc = None
         THEN /\ current_doc' = NewGroup(page)
              /\ UNCHANGED documents
         ELSE IF should_group_pages(current_doc, page)
         THEN /\ current_doc' =
                   LET pages == Append(current_doc.pages, page.page_number)
                   IN  [current_doc EXCEPT
                          !.pages = pages,
                          !.text_length = @ + page.text_length,
                          !.confidence = Max(@, page.confidence),
                          !.page_range = <<"Pages", SeqMin(pages), SeqMax(pages)>>]
              /\ UNCHANGED documents
         ELSE /\ documents' = Append(documents, current_doc)
              /\ current_doc' = NewGroup(page)
  /\ page_num' = page_num + 1
  /\ UNCHANGED <<document_patterns, classification>>
  /\ UNCHANGED <<script, doc, run, first_forms, pc, page_data, doc_counter,
                 detected_forms, error>>

\* The last group and the returned result; no page entry returns [].
RealReturn ==
  /\ script = "real" /\ pc = "group" /\ page_num = Len(page_data)
  /\ LET all == IF current_doc # None THEN Append(documents, current_doc) ELSE documents
     IN  documents' = all /\ detected_forms' = all
  /\ pc' = "done"
  /\ UNCHANGED <<document_patterns, classification>>
  /\ UNCHANGED <<script, doc, run, first_forms, page_data, page_num, current_doc,
                 doc_counter, error>>

(***************************************************************************)
(* multiPageProcessor.py                                                   *)
(***************************************************************************)

form_patterns ==
  <<[form_type |-> "Commercial Invoice", patterns |-> <<"commercial\\s+invoice", "invoice\\s+no", "seller", "buyer", "description\\s+of\\s+goods", "unit\\s+price", "total\\s+amount">>],
    [form_type |-> "Bill of Lading", patterns |-> <<"bill\\s+of\\s+lading", "shipper", "consignee", "notify\\s+party", "port\\s+of\\s+loading", "port\\s+of\\s+discharge", "vessel">>],
    [form_type |-> "Certificate of Origin", patterns |-> <<"certificate\\s+of\\s+origin", "country\\s+of\\s+origin", "exporter", "importer", "chamber\\s+of\\s+commerce", "certify">>],
    [form_type |-> "Packing List", patterns |-> <<"packing\\s+list", "carton\\s+no", "net\\s+weight", "gross\\s+weight", "dimensions", "packages", "contents">>],
    [form_type |-> "Insurance Certificate", patterns |-> <<"insurance\\s+certificate", "policy\\s+no", "insured\\s+amount", "coverage", "underwriter", "premium">>],
    [form_type |-> "Letter of Credit", patterns |-> <<"letter\\s+of\\s+credit", "documentary\\s+credit", "irrevocable", "beneficiary", "applicant", "issuing\\s+bank", "advising\\s+bank">>],
    [form_type |-> "Multimodal Transport Document", patterns |-> <<"multimodal\\s+transport", "combined\\s+transport", "freight\\s+forwarder", "place\\s+of\\s+receipt", "place\\s+of\\s+delivery">>]>>

\* 'invoice' in pattern or 'lading' in pattern or 'certificate' in pattern
IsWeighted(pattern) ==
  pattern \in {"bill\\s+of\\s+lading", "certificate\\s+of\\s+origin", "commercial\\s+invoice",
               "insurance\\s+certificate", "invoice\\s+no"}

\* The page's text, "" when the extraction raises.
extract_text_from_page(page) == IF page.ok THEN page.text ELSE <<>>

\* <<best_match, best_score, best_confidence>> after the first i - 1 form
\* types; the confidence is in thousandths, rounded down.
RECURSIVE MultiBestMatch(_, _, _)
MultiBestMatch(text_lower, i, best) ==
  IF i > Len(form_patterns) THEN best
  ELSE LET patterns == form_patterns[i].patterns
           hits == {k \in DOMAIN patterns : Contains(text_lower, patterns[k])}
           matches == Cardinality(hits)
           score == matches + Cardinality({k \in hits : IsWeighted(patterns[k])})
           confidence == Min(950, (matches * 800) \div Len(patterns) + 200)
       IN  MultiBestMatch(text_lower, i + 1,
             IF matches > 0 /\ score > best[2]
             THEN <<form_patterns[i].form_type, score, confidence>> ELSE best)

classify_page(text) ==
  LET best == MultiBestMatch(LowerText(text), 1, <<"Unknown Document", 0, 300>>)
  IN  <<best[1], best[3]>>

MultiForm(pnum, text) ==
  LET c == classify_page(text)
  IN  [page_number |-> pnum, form_type |-> <<c[1]>>, confidence |-> c[2],
       text_length |-> CharLen(text)]

\* split_and_process_document: a one-page file gives one record whatever its
\* text; a longer file gives a record for each page whose text is not empty.
MultiProcess ==
  /\ script = "multi" /\ pc = "start"
  /\ detected_forms' =
       IF total_pages = 1
       THEN <<MultiForm(1, extract_text_from_page(doc[1]))>>
       ELSE LET kept == SelectSeq([i \in 1..total_pages |-> i],
                                  LAMBDA i : extract_text_from_page(doc[i]) # <<>>)
            IN  [k \in DOMAIN kept |-> MultiForm(kept[k], extract_text_from_page(doc[kept[k]]))]
  /\ page_num' = total_pages
  /\ pc' = "done"
  /\ UNCHANGED <<document_patterns, classification>>
  /\ UNCHANGED <<script, doc, run, first_forms, page_data, current_doc, documents,
                 doc_counter, error>>

(***************************************************************************)
(* enhancedOCRProcessor.py                                                 *)
(***************************************************************************)

\* word.split() of one token, in order
SplitWords(t) ==
  CASE t = "COMMERCIAL INVOICE" -> <<"COMMERCIAL", "INVOICE">>
    [] t = "Invoice No:" -> <<"Invoice", "No:">>
    [] t = "BILL OF LADING" -> <<"BILL", "OF", "LADING">>
    [] t = "B/L No:" -> <<"B/L", "No:">>
    [] t = "PACKING LIST" -> <<"PACKING", "LIST">>
    [] t = "Gross Weight" -> <<"Gross", "Weight">>
    [] t = "HEALTH CERTIFICATE" -> <<"HEALTH", "CERTIFICATE">>
    [] t = "Net Weight" -> <<"Net", "Weight">>
    [] OTHER -> <<t>>

\* The words of the vocabulary whose lower case is one of invoice,
\* certificate, document, letter, bill, or that end in "." or ":".
EndsSection(word) ==
  word \in {"BILL", "Buyer:", "CERTIFICATE", "INVOICE", "Invoice", "No:", "Ref:", "Seller:", "Shipper:"}

\* The sections of structure_document_text, each the words joined by blanks.
RECURSIVE Sections(_, _)
Sections(words, current_section) ==
  IF words = <<>> THEN (IF current_section = "" THEN <<>> ELSE <<current_section>>)
  ELSE LET joined == IF current_section = "" THEN words[1]
                     ELSE current_section \o " " \o words[1]
       IN  IF EndsSection(words[1]) \/ Len(joined) > 200
           THEN <<joined>> \o Sections(Tail(words), "")
           ELSE Sections(Tail(words), joined)

\* format_extracted_text: the text as its sections (joined by two newlines
\* in the code); fix_common_ocr_errors changes no word of the vocabulary.
format_extracted_text(raw_text) ==
  Sections(Flatten([i \in DOMAIN raw_text |-> SplitWords(raw_text[i])]), "")

\* len() of a formatted text
FormattedLen(sections) ==
  IF sections = <<>> THEN 0
  ELSE SeqSum([i \in DOMAIN sections |-> Len(sections[i])]) + 2 * (Len(sections) - 1)

extract_clean_text_from_page(page, pnum) ==
  IF page.ok THEN format_extracted_text(page.text)
  ELSE <<"Error processing page " \o NumTok(pnum)>>

enhanced_patterns ==
  <<[keywords |-> <<"letter of credit", "documentary credit", "l/c no", "issuing bank", "beneficiary", "applicant">>, doc_type |-> "Letter of Credit"],
    [keywords |-> <<"commercial invoice", "invoice no", "seller", "buyer", "total amount", "unit price">>, doc_type |-> "Commercial Invoice"],
    [keywords |-> <<"bill of lading", "b/l no", "shipper", "consignee", "vessel", "port of loading">>, doc_type |-> "Bill of Lading"],
    [keywords |-> <<"certificate of origin", "country of origin", "chamber of commerce", "goods originating">>, doc_type |-> "Certificate of Origin"],
    [keywords |-> <<"packing list", "package list", "gross weight", "net weight", "dimensions">>, doc_type |-> "Packing List"],
    [keywords |-> <<"insurance certificate", "marine insurance", "policy no", "insured amount">>, doc_type |-> "Insurance Certificate"],
    [keywords |-> <<"inspection certificate", "quality certificate", "survey report", "analysis">>, doc_type |-> "Inspection Certificate"],
    [keywords |-> <<"bill of exchange", "draft", "drawer", "drawee", "payee">>, doc_type |-> "Bill of Exchange"],
    [keywords |-> <<"bank guarantee", "performance guarantee", "guarantor">>, doc_type |-> "Bank Guarantee"],
    [keywords |-> <<"customs declaration", "export declaration", "tariff">>, doc_type |-> "Customs Declaration"],
    [keywords |-> <<"transport document", "freight forwarder", "multimodal", "cargo">>, doc_type |-> "Transport Document"],
    [keywords |-> <<"weight certificate", "weighing certificate">>, doc_type |-> "Weight Certificate"],
    [keywords |-> <<"health certificate", "sanitary certificate", "veterinary">>, doc_type |-> "Health Certificate"],
    [keywords |-> <<"fumigation certificate", "phytosanitary", "treatment">>, doc_type |-> "Fumigation Certificate"],
    [keywords |-> <<"analysis certificate", "laboratory", "test results">>, doc_type |-> "Analysis Certificate"]>>

RECURSIVE EnhancedBestMatch(_, _, _)
EnhancedBestMatch(text_lower, i, best_match) ==
  IF i > Len(enhanced_patterns) THEN best_match
  ELSE LET score == 2 * CountMatches(enhanced_patterns[i].keywords, text_lower)
       IN  EnhancedBestMatch(text_lower, i + 1,
             IF score > best_match[2] THEN <<enhanced_patterns[i].doc_type, score>>
             ELSE best_match)

classify_document_accurately(text) ==
  EnhancedBestMatch(LowerText(text), 1, <<"Trade Finance Document", 0>>)[1]

\* sum(0.85 for each of n records) / n in IEEE-754 doubles, as the number of
\* units in the last place by which it differs from the double 0.85.
MeanUlps(n) ==
  CASE n \in 1..6 -> 0
    [] n \in 7..10 -> -1
    [] n \in 11..19 -> -2
    [] n \in 20..21 -> -1
    [] n \in 22..23 -> 0
    [] n \in 24..25 -> 1

merge_document_group(group) ==
  IF Len(group) = 1 THEN group[1]
  ELSE LET all_pages == Flatten([i \in DOMAIN group |-> group[i].pages])
           doc_type == group[1].document_type
       IN  [form_type |-> <<doc_type, "pages", Len(group)>>,
            document_type |-> doc_type,
            confidence |-> SeqSum([i \in DOMAIN group |-> group[i].confidence]) \div Len(group),
            confidence_ulps |-> MeanUlps(Len(group)),
            pages |-> SortSeq(all_pages, LAMBDA a, b : a < b),
            page_range |-> PageRange(all_pages),
            text_length |-> SeqSum([i \in DOMAIN group |-> group[i].text_length])
                              + PageBreakLen * (Len(group) - 1)]

\* The page loop of process_scanned_pdf: one record for each page whose clean
\* text is longer than 50 characters, always with confidence 0.85.
EnhancedExtract ==
  /\ script = "enhanced" /\ pc = "start"
  /\ page_data' =
       LET page_text(i) == extract_clean_text_from_page(doc[i], i)
           kept == SelectSeq([i \in 1..total_pages |-> i],
                             LAMBDA i : FormattedLen(page_text(i)) > 50)
       IN  [k \in DOMAIN kept |->
              LET doc_type == classify_document_accurately(page_text(kept[k]))
              IN  [form_type |-> <<doc_type, "Page", kept[k]>>, document_type |-> doc_type,
                   confidence |-> 850, confidence_ulps |-> 0, pages |-> <<kept[k]>>,
                   page_range |-> <<"Page", kept[k]>>,
                   text_length |-> FormattedLen(page_text(kept[k]))]]
  /\ pc' = "group"
  /\ UNCHANGED <<document_patterns, classification>>
  /\ UNCHANGED <<script, doc, run, first_forms, page_num, current_doc, documents,
                 doc_counter, detected_forms, error>>

\* group_similar_documents: the first record opens the group, each later one
\* joins it or closes it; current_doc is current_group.
EnhancedPage ==
  /\ script = "enhanced" /\ pc = "group" /\ page_num < Len(page_data)
  /\ LET d == page_data[page_num + 1]
         last_doc == current_doc[Len(current_doc)]
     IN  IF page_num = 0
         THEN /\ current_doc' = <<d>>
              /\ UNCHANGED documents
         ELSE IF /\ d.document_type = last_doc.document_type
                 /\ d.pages[1] = last_doc.pages[Len(last_doc.pages)] + 1
         THEN /\ current_doc' = Append(current_doc, d)
              /\ UNCHANGED documents
         ELSE /\ documents' = Append(documents, merge_document_group(current_doc))
              /\ current_doc' = <<d>>
  /\ page_num' = page_num + 1
  /\ UNCHANGED <<document_patterns, classification>>
  /\ UNCHANGED <<script, doc, run, first_forms, pc, page_data, doc_counter,
                 detected_forms, error>>

\* The final group and the returned result; no record returns [].
EnhancedReturn ==
  /\ script = "enhanced" /\ pc = "group" /\ page_num = Len(page_data)
  /\ LET all == IF current_doc # <<>>
                THEN Append(documents, merge_document_group(current_doc))
                ELSE documents
     IN  documents' = all /\ detected_forms' = all
  /\ pc' = "done"
  /\ UNCHANGED <<document_patterns, classification>>
  /\ UNCHANGED <<script, doc, run, first_forms, page_data, page_num, current_doc,
                 doc_counter, error>>

(***************************************************************************)
(* intelligentFormSplitter.py                                              *)
(***************************************************************************)

classification_patterns ==
  <<[keywords |-> <<"certificate of weight", "weight certificate", "gross weight", "net weight", "cargo weight">>, doc_type |-> "Certificate of Weight", base_confidence |-> 950],
    [keywords |-> <<"vessel certificate", "vessel voyage", "flag / nationality", "imo no", "carrying vessel">>, doc_type |-> "Vessel Certificate", base_confidence |-> 950],
    [keywords |-> <<"commercial invoice", "invoice no", "invoice date", "beneficiary", "proforma invoice">>, doc_type |-> "Commercial Invoice", base_confidence |-> 900],
    [keywords |-> <<"bill of lading", "b/l no", "shipper", "consignee", "port of loading">>, doc_type |-> "Bill of Lading", base_confidence |-> 900],
    [keywords |-> <<"certificate of origin", "country of origin", "origin certificate">>, doc_type |-> "Certificate of Origin", base_confidence |-> 900],
    [keywords |-> <<"letter of credit", "l/c number", "documentary credit", "applicant">>, doc_type |-> "Letter of Credit", base_confidence |-> 900],
    [keywords |-> <<"packing list", "packing", "packages", "cartons", "quantity">>, doc_type |-> "Packing List", base_confidence |-> 800],
    [keywords |-> <<"insurance certificate", "insurance policy", "coverage", "insured">>, doc_type |-> "Insurance Certificate", base_confidence |-> 800],
    [keywords |-> <<"inspection certificate", "quality certificate", "inspection", "tested">>, doc_type |-> "Inspection Certificate", base_confidence |-> 800],
    [keywords |-> <<"bill of exchange", "draft", "exchange", "drawn on">>, doc_type |-> "Bill of Exchange", base_confidence |-> 700],
    [keywords |-> <<"trade", "finance", "document", "international">>, doc_type |-> "Trade Finance Document", base_confidence |-> 600]>>

\* The for loop of classify_document_type from entry i on.
RECURSIVE SplitterBestMatch(_, _, _)
SplitterBestMatch(text_lower, i, best_match) ==
  IF i > Len(classification_patterns) THEN best_match
  ELSE LET p == classification_patterns[i]
           matches == CountMatches(p.keywords, text_lower)
           confidence == Min(p.base_confidence + (matches - 1) * 50, 990)
       IN  SplitterBestMatch(text_lower, i + 1,
             IF matches > 0 /\ confidence > best_match[2]
             THEN <<p.doc_type, confidence>> ELSE best_match)

splitter_classify_document_type(text) ==
  SplitterBestMatch(LowerText(text), 1, <<"Trade Finance Document", 600>>)

\* The page loop of group_pages_by_document_type: the pages of fewer than 20
\* characters are skipped.
SplitterPagesData ==
  LET kept == SelectSeq([i \in 1..total_pages |-> i],
                        LAMBDA i : ~ (CharLen(doc[i].text) < 20))
  IN  [k \in DOMAIN kept |->
         LET c == splitter_classify_document_type(doc[kept[k]].text)
         IN  [page_number |-> kept[k], document_type |-> c[1], confidence |-> c[2],
              text_length |-> CharLen(doc[kept[k]].text)]]

\* The entries at which the grouping loop opens a group: the first one and
\* each one whose document_type is not that of the entry before it.  The
\* page numbers play no part.
GroupStarts(pages_data) ==
  SelectSeq([i \in DOMAIN pages_data |-> i],
            LAMBDA i : i = 1 \/ pages_data[i].document_type # pages_data[i - 1].document_type)

\* grouped_documents after the grouping loop.
SplitterGroups(pages_data) ==
  LET starts == GroupStarts(pages_data)
  IN  [g \in DOMAIN starts |->
         LET last == IF g < Len(starts) THEN starts[g + 1] - 1 ELSE Len(pages_data)
             pages == SubSeq(pages_data, starts[g], last)
         IN  [document_type |-> pages[1].document_type,
              pages |-> pages,
              confidence |-> SeqMax([k \in DOMAIN pages |-> pages[k].confidence])]]

\* A group in the final format.
SplitterForm(group) ==
  LET page_numbers == [k \in DOMAIN group.pages |-> group.pages[k].page_number]
  IN  [form_type |-> <<group.document_type>>,
       confidence |-> group.confidence,
       pages |-> page_numbers,
       page_range |-> PageRange(page_numbers),
       text_length |-> SeqSum([k \in DOMAIN group.pages |-> group.pages[k].text_length])
                         + PageBreakLen * (Len(group.pages) - 1)]

\* The page loop of group_pages_by_document_type.  extract_text_from_page
\* has no try/except: a page whose extraction raises ends the call in the
\* error result, which has no 'detected_forms'.
SplitterExtract ==
  /\ script = "splitter" /\ pc = "start"
  /\ IF \E p \in 1..total_pages : ~ doc[p].ok
     THEN /\ error' = TRUE
          /\ pc' = "done"
          /\ UNCHANGED page_data
     ELSE /\ page_data' = SplitterPagesData
          /\ pc' = "group"
          /\ UNCHANGED error
  /\ UNCHANGED <<document_patterns, classification>>
  /\ UNCHANGED <<script, doc, run, first_forms, page_num, current_doc, documents,
                 doc_counter, detected_forms>>

\* The grouping loop, the final format and the result.  The result is built
\* from doc.page_count after doc.close(): a PyMuPDF that refuses the closed
\* document raises there and the call ends in the error result; one that
\* answers returns the records.
SplitterGroup ==
  /\ script = "splitter" /\ pc = "group"
  /\ \E closed_raises \in BOOLEAN :
       LET groups == SplitterGroups(page_data)
       IN  /\ error' = closed_raises
           /\ detected_forms' =
                IF closed_raises THEN <<>>
                ELSE [g \in DOMAIN groups |-> SplitterForm(groups[g])]
  /\ page_num' = Len(page_data)
  /\ pc' = "done"
  /\ UNCHANGED <<document_patterns, classification>>
  /\ UNCHANGED <<script, doc, run, first_forms, page_data, current_doc, documents,
                 doc_counter>>

(***************************************************************************)
(* cleanTextExtractor.py                                                   *)
(***************************************************************************)

\* fix_text_formatting on one token: the punctuation rules and the
\* replacements of '|', '0O', '1l', 'rn' and 'cl' leave every token of the
\* vocabulary but those listed here as it is.
FixToken(t) ==
  CASE t = "Ref:INV-001" -> "Ref: INV-001"
    [] OTHER -> t

\* format_text_properly: the text stripped, its blanks normalised, and
\* fix_text_formatting applied.
format_text_properly(raw_text) == [i \in DOMAIN raw_text |-> FixToken(raw_text[i])]

\* extract_page_text_clean: "" when the extraction raises.
extract_page_text_clean(page, pnum) ==
  IF page.ok THEN format_text_properly(page.text) ELSE <<>>

\* The if/elif chain of classify_document_by_content.
clean_terms ==
  <<[keywords |-> <<"letter of credit", "documentary credit", "l/c">>, doc_type |-> "Letter of Credit"],
    [keywords |-> <<"commercial invoice", "invoice">>, doc_type |-> "Commercial Invoice"],
    [keywords |-> <<"bill of lading", "b/l">>, doc_type |-> "Bill of Lading"],
    [keywords |-> <<"certificate of origin", "origin">>, doc_type |-> "Certificate of Origin"],
    [keywords |-> <<"packing list", "packing">>, doc_type |-> "Packing List"],
    [keywords |-> <<"insurance", "marine insurance">>, doc_type |-> "Insurance Certificate"],
    [keywords |-> <<"inspection", "quality">>, doc_type |-> "Inspection Certificate"],
    [keywords |-> <<"bill of exchange", "draft">>, doc_type |-> "Bill of Exchange"],
    [keywords |-> <<"guarantee", "bank guarantee">>, doc_type |-> "Bank Guarantee"],
    [keywords |-> <<"customs", "declaration">>, doc_type |-> "Customs Declaration"],
    [keywords |-> <<"transport", "freight">>, doc_type |-> "Transport Document"],
    [keywords |-> <<"weight", "certificate">>, doc_type |-> "Weight Certificate"],
    [keywords |-> <<"health", "sanitary">>, doc_type |-> "Health Certificate"]>>

classify_document_by_content(text) ==
  FirstMatch(clean_terms, LowerText(text), "Trade Finance Document")

\* The page loop of extract_clean_documents: one record for each page whose
\* clean text is longer than 30 characters, always with confidence 0.8.
CleanDocuments ==
  LET page_text(i) == extract_page_text_clean(doc[i], i)
      kept == SelectSeq([i \in 1..total_pages |-> i],
                        LAMBDA i : CharLen(page_text(i)) > 30)
  IN  [k \in DOMAIN kept |->
         LET doc_type == classify_document_by_content(page_text(kept[k]))
         IN  [form_type |-> <<doc_type, "Page", kept[k]>>, document_type |-> doc_type,
              confidence |-> 800, pages |-> <<kept[k]>>,
              page_range |-> <<"Page", kept[k]>>,
              text_length |-> CharLen(page_text(kept[k]))]]

clean_merge_document_group(group) ==
  IF Len(group) = 1 THEN group[1]
  ELSE LET all_pages == Flatten([i \in DOMAIN group |-> group[i].pages])
           doc_type == group[1].document_type
       IN  [form_type |-> <<doc_type, "pages", Len(group)>>,
            document_type |-> doc_type,
            confidence |-> 800,
            pages |-> SortSeq(all_pages, LAMBDA a, b : a < b),
            page_range |-> <<"Pages", SeqMin(all_pages), SeqMax(all_pages)>>,
            text_length |-> SeqSum([i \in DOMAIN group |-> group[i].text_length])
                              + PageBreakLen * (Len(group) - 1)]

\* The loop of group_consecutive_documents from record i on: a record joins
\* the group when it has the type of the group's last record and the page
\* after it; otherwise the group is merged and a new one begins.  A gap in
\* the page numbers is no error.
RECURSIVE GroupConsecutive(_, _, _, _)
GroupConsecutive(docs, i, grouped, current_group) ==
  IF i > Len(docs) THEN Append(grouped, clean_merge_document_group(current_group))
  ELSE LET d == docs[i]
           last_doc == current_group[Len(current_group)]
       IN  IF /\ d.document_type = last_doc.document_type
              /\ d.pages[1] = last_doc.pages[Len(last_doc.pages)] + 1
           THEN GroupConsecutive(docs, i + 1, grouped, Append(current_group, d))
           ELSE GroupConsecutive(docs, i + 1,
                  Append(grouped, clean_merge_document_group(current_group)), <<d>>)

\* A grouping that looks at the type only, so that a run goes on across a
\* missing page (C30).
RECURSIVE GroupSameType(_, _, _, _)
GroupSameType(docs, i, grouped, current_group) ==
  IF i > Len(docs) THEN Append(grouped, clean_merge_document_group(current_group))
  ELSE IF docs[i].document_type = current_group[Len(current_group)].document_type
       THEN GroupSameType(docs, i + 1, grouped, Append(current_group, docs[i]))
       ELSE GroupSameType(docs, i + 1,
              Append(grouped, clean_merge_document_group(current_group)), <<docs[i]>>)

GroupByTypeOnly(docs) ==
  IF docs = <<>> THEN <<>> ELSE GroupSameType(docs, 2, <<>>, <<docs[1]>>)

group_consecutive_documents(docs) ==
  IF docs = <<>> THEN <<>> ELSE GroupConsecutive(docs, 2, <<>>, <<docs[1]>>)

\* extract_clean_documents; page_data is its list 'documents' of page
\* records, handed to group_consecutive_documents.
CleanExtract ==
  /\ script = "clean" /\ pc = "start"
  /\ page_data' = CleanDocuments
  /\ detected_forms' = group_consecutive_documents(CleanDocuments)
  /\ page_num' = total_pages
  /\ pc' = "done"
  /\ UNCHANGED <<document_patterns, classification>>
  /\ UNCHANGED <<script, doc, run, first_forms, current_doc, documents, doc_counter,
                 error>>

(***************************************************************************)
(* memoryEfficientOCR.py                                                   *)
(***************************************************************************)

\* any(word in text_lower for word in words)
AnyWord(words, text_lower) == \E w \in words : Contains(text_lower, w)

memory_classify_document_type(text) ==
  LET text_lower == LowerText(text)
  IN  IF AnyWord({"certificate", "certify", "certified"}, text_lower)
      THEN IF AnyWord({"weight", "gross", "net"}, text_lower) THEN "Certificate of Weight"
           ELSE IF AnyWord({"origin", "country", "chamber of commerce"}, text_lower)
           THEN "Certificate of Origin"
           ELSE IF AnyWord({"vessel", "ship", "maritime", "imo"}, text_lower)
           THEN "Vessel Certificate"
           ELSE "Certificate"
      ELSE IF AnyWord({"invoice", "bill", "amount", "total"}, text_lower)
      THEN "Commercial Invoice"
      ELSE IF AnyWord({"credit", "documentary", "applicant", "beneficiary"}, text_lower)
      THEN "Letter of Credit"
      ELSE IF AnyWord({"transport", "shipment", "cargo", "container"}, text_lower)
      THEN "Transport Document"
      ELSE "Trade Finance Document"

\* The entry process_page_batch appends for a page: the OCR text when it is
\* longer than 10 characters, else a placeholder; a page that raises gets a
\* text that ends in the exception's message (taken to hold no keyword).
MemoryPageEntry(page, pnum) ==
  IF ~ page.ok
  THEN [page_number |-> pnum,
        text |-> <<"Page", NumTok(pnum), "-", "processing", "failed:", "message">>,
        text_length |-> 25]
  ELSE IF CharLen(page.text) > 10
  THEN [page_number |-> pnum, text |-> page.text, text_length |-> CharLen(page.text)]
  ELSE [page_number |-> pnum,
        text |-> <<"Scanned", "page", NumTok(pnum), "-", "minimal", "text">>,
        text_length |-> 30]

\* batch_size of main
BatchSize == IF total_pages > 30 THEN 2 ELSE 3

\* The batch loop of main.  Before a batch the resident memory is read, and
\* above 800 MB the loop is left with the pages of the batches done so far:
\* how many batches are done is the system's choice.
MemoryExtract ==
  /\ script = "memory" /\ pc = "start"
  /\ \E batches \in 0..((total_pages + BatchSize - 1) \div BatchSize) :
       page_data' = [p \in 1..Min(batches * BatchSize, total_pages) |->
                       MemoryPageEntry(doc[p], p)]
  /\ pc' = "group"
  /\ UNCHANGED <<document_patterns, classification>>
  /\ UNCHANGED <<script, doc, run, first_forms, page_num, current_doc, documents,
                 doc_counter, detected_forms, error>>

\* The entries at which identify_document_boundaries starts a document: the
\* first, each one classified otherwise than the current document (whose
\* classification is that of the entry before), each one of more than 200
\* characters.
BoundaryStarts(pages_data) ==
  SelectSeq([i \in DOMAIN pages_data |-> i],
            LAMBDA i : \/ i = 1
                       \/ memory_classify_document_type(pages_data[i].text)
                            # memory_classify_document_type(pages_data[i - 1].text)
                       \/ CharLen(pages_data[i].text) > 200)

\* page_range as identify_document_boundaries writes it: "Page N" when the
\* document is started, "Pages first-last" at every page added.
MemoryPageRange(pages) ==
  IF Len(pages) = 1 THEN <<"Page", pages[1]>>
  ELSE <<"Pages", pages[1], pages[Len(pages)]>>

identify_document_boundaries(pages_data) ==
  LET starts == BoundaryStarts(pages_data)
  IN  [g \in DOMAIN starts |->
         LET last == IF g < Len(starts) THEN starts[g + 1] - 1 ELSE Len(pages_data)
             entries == SubSeq(pages_data, starts[g], last)
             pages == [k \in DOMAIN entries |-> entries[k].page_number]
         IN  [classification |-> memory_classify_document_type(entries[1].text),
              pages |-> pages,
              page_range |-> MemoryPageRange(pages),
              confidence_score |-> 85,
              total_chars |-> SeqSum([k \in DOMAIN entries |-> entries[k].text_length])]]

\* The rest of main: the boundaries and the printed result.
MemoryBoundaries ==
  /\ script = "memory" /\ pc = "group"
  /\ detected_forms' = identify_document_boundaries(page_data)
  /\ page_num' = Len(page_data)
  /\ pc' = "done"
  /\ UNCHANGED <<document_patterns, classification>>
  /\ UNCHANGED <<script, doc, run, first_forms, page_data, current_doc, documents,
                 doc_counter, error>>

(***************************************************************************)
(* documentClassifier.py                                                   *)
(***************************************************************************)

\* self.document_patterns as DocumentClassifier.__init__ sets it: the types
\* in the order of the dict, each with its 'patterns'.
init_document_patterns ==
  <<[doc_type |-> "Commercial Invoice", patterns |-> <<"commercial\\s+invoice", "invoice\\s+number", "total\\s+amount", "invoice\\s+date", "seller[:\\s]", "buyer[:\\s]", "goods\\s+description">>],
    [doc_type |-> "Bill of Lading", patterns |-> <<"bill\\s+of\\s+lading", "b\\/l\\s+number", "vessel\\s+name", "port\\s+of\\s+loading", "port\\s+of\\s+discharge", "shipper[:\\s]", "consignee[:\\s]">>],
    [doc_type |-> "Certificate of Origin", patterns |-> <<"certificate\\s+of\\s+origin", "country\\s+of\\s+origin", "chamber\\s+of\\s+commerce", "goods\\s+origin", "export[:\\s]", "certified\\s+that">>],
    [doc_type |-> "Packing List", patterns |-> <<"packing\\s+list", "package\\s+list", "gross\\s+weight", "net\\s+weight", "dimensions", "packages?\\s+\\d+">>],
    [doc_type |-> "Insurance Certificate", patterns |-> <<"insurance\\s+certificate", "policy\\s+number", "insured\\s+amount", "coverage", "underwriter">>],
    [doc_type |-> "Multimodal Transport Document", patterns |-> <<"multimodal\\s+transport", "mtd\\s+number", "transport\\s+document", "place\\s+of\\s+receipt", "place\\s+of\\s+delivery", "combined\\s+transport", "final\\s+destination", "carrier\\s+received">>]>>

\* a / b > c / d for the quotients <<a, b>> and <<c, d>> of two divisions
\* of small integers, which floating-point division keeps apart.
Greater(x, y) == x[1] * y[2] > y[1] * x[2]

\* The for loop of classify_document from entry i of the catalog on; best is
\* <<best_match, best_score>>, the score being matched_patterns over
\* len(patterns).
RECURSIVE ClassifierBestMatch(_, _, _, _)
ClassifierBestMatch(catalog, text_lower, i, best) ==
  IF i > Len(catalog) THEN best
  ELSE LET patterns == catalog[i].patterns
           matched_patterns == Cardinality({k \in DOMAIN patterns :
                                              Contains(text_lower, patterns[k])})
           confidence == <<matched_patterns, Len(patterns)>>
       IN  ClassifierBestMatch(catalog, text_lower, i + 1,
             IF Len(patterns) > 0 /\ Greater(confidence, best[2])
             THEN <<catalog[i].doc_type, confidence>> ELSE best)

\* classify_document with self.document_patterns = catalog; the patterns are
\* searched with re.IGNORECASE.
classify_document(catalog, text) ==
  ClassifierBestMatch(catalog, LowerText(text), 1, <<"Unknown Document", <<0, 1>>>>)

(***************************************************************************)
(* quickOpenCVAnalyzer.py                                                  *)
(***************************************************************************)

quick_terms ==
  <<[keywords |-> <<"letter of credit", "l/c no", "documentary credit", "issuing bank">>, doc_type |-> "Letter of Credit"],
    [keywords |-> <<"commercial invoice", "invoice no", "seller", "buyer">>, doc_type |-> "Commercial Invoice"],
    [keywords |-> <<"bill of lading", "b/l no", "shipper", "consignee">>, doc_type |-> "Bill of Lading"],
    [keywords |-> <<"certificate of origin", "country of origin">>, doc_type |-> "Certificate of Origin"],
    [keywords |-> <<"packing list", "gross weight", "net weight">>, doc_type |-> "Packing List"],
    [keywords |-> <<"insurance certificate", "policy no", "marine insurance">>, doc_type |-> "Insurance Certificate"],
    [keywords |-> <<"inspection certificate", "quality certificate">>, doc_type |-> "Inspection Certificate"],
    [keywords |-> <<"bill of exchange", "draft", "drawer">>, doc_type |-> "Bill of Exchange"],
    [keywords |-> <<"bank guarantee", "performance guarantee">>, doc_type |-> "Bank Guarantee"],
    [keywords |-> <<"customs declaration", "export declaration">>, doc_type |-> "Customs Declaration"],
    [keywords |-> <<"transport document", "freight forwarder">>, doc_type |-> "Transport Document"],
    [keywords |-> <<"weight certificate", "analysis certificate">>, doc_type |-> "Weight Certificate"],
    [keywords |-> <<"health certificate", "sanitary certificate">>, doc_type |-> "Health Certificate"],
    [keywords |-> <<"fumigation certificate", "phytosanitary">>, doc_type |-> "Fumigation Certificate"],
    [keywords |-> <<"certificate", "certified">>, doc_type |-> "Certificate"]>>

\* The if/elif chain: the first entry one of whose terms is in the text.
quick_classify(text) == FirstMatch(quick_terms, LowerText(text), "Unknown")

\* The token ends in no or number and ':', so that the blank after it
\* completes (?:no|number)[.:\s]+ .
QuickIsMarker(t) == t \in {"b/l no:", "invoice no:", "no:", "of lading b/l no:"}

\* re.findall of (?:no|number)[.:\s]+([a-z0-9\-/]{3,10}), left to right; no
\* token of the vocabulary starts with more than 10 such characters.
RECURSIVE QuickFindAll(_, _)
QuickFindAll(text_lower, i) ==
  IF i >= Len(text_lower) THEN <<>>
  ELSE IF QuickIsMarker(text_lower[i]) /\ Capture(text_lower[i + 1]) # ""
       THEN <<Capture(text_lower[i + 1])>> \o QuickFindAll(text_lower, i + 2)
       ELSE QuickFindAll(text_lower, i + 1)

\* Python's None as the value of current_doc_type, which is otherwise a str
NoType == "<None>"

\* str(doc_type) in an f-string
TypeName(doc_type) == IF doc_type = NoType THEN "None" ELSE doc_type

\* cur is current_doc_pages (numbers and texts) with current_doc_type.
create_document_record(cur) ==
  LET doc_numbers == QuickFindAll(LowerText(Flatten(cur.texts)), 1)
  IN  [form_type |-> IF doc_numbers # <<>>
                     THEN <<TypeName(cur.type), Prefix(doc_numbers[1], 8)>>
                     ELSE <<cur.type>>,
       document_type |-> cur.type,
       confidence |-> 800,
       pages |-> cur.pages,
       page_range |-> PageRange(cur.pages),
       text_length |-> JoinedLen(cur.texts)]

\* current_doc_pages = [] and current_doc_type = None
QuickEmpty == [type |-> NoType, pages |-> <<>>, texts |-> <<>>]

\* One iteration of the page loop of quick_analyze_document.
QuickPage ==
  /\ script = "quick" /\ pc = "start" /\ page_num < total_pages
  /\ LET page == doc[page_num + 1]
         page_type == quick_classify(page.text)
     IN  IF ~ page.ok
         THEN \* 'except Exception as e' inside the loop
              /\ current_doc' =
                   [current_doc EXCEPT
                      !.pages = Append(@, page_num + 1),
                      !.texts = Append(@, <<"Error", "processing", "page",
                                            NumTok(page_num + 1)>>)]
              /\ UNCHANGED documents
         ELSE IF page_type # current_doc.type /\ page_type # "Unknown"
         THEN /\ documents' = IF current_doc.pages # <<>>
                              THEN Append(documents, create_document_record(current_doc))
                              ELSE documents
              /\ current_doc' = [type |-> page_type, pages |-> <<page_num + 1>>,
                                 texts |-> <<page.text>>]
         ELSE /\ current_doc' = [current_doc EXCEPT
                                   !.pages = Append(@, page_num + 1),
                                   !.texts = Append(@, page.text)]
              /\ UNCHANGED documents
  /\ page_num' = page_num + 1
  /\ UNCHANGED <<document_patterns, classification>>
  /\ UNCHANGED <<script, doc, run, first_forms, pc, page_data, doc_counter,
                 detected_forms, error>>

\* After the loop: the final document and the result.
QuickReturn ==
  /\ script = "quick" /\ pc = "start" /\ page_num = total_pages
  /\ LET all == IF current_doc.pages # <<>>
                THEN Append(documents, create_document_record(current_doc))
                ELSE documents
     IN  documents' = all /\ detected_forms' = all
  /\ pc' = "done"
  /\ UNCHANGED <<document_patterns, classification>>
  /\ UNCHANGED <<script, doc, run, first_forms, page_data, page_num, current_doc,
                 doc_counter, error>>

(***************************************************************************)
(* Runs                                                                    *)
(***************************************************************************)

Scripts == {"precise", "ocr", "fast", "real", "multi", "enhanced", "splitter", "clean",
            "memory"}

ShortDocs == UNION {[1..n -> Corpus] : n \in 1..MaxPages}
\* The longer PDFs alternate between two pages that carry at most one identifier.
LongCorpus == {TextPage(t) : t \in CorpusTexts \ {AttachText}}
LongDocs ==
  {[i \in 1..n |-> IF i % 2 = 1 THEN a ELSE b] :
     a \in LongCorpus, b \in LongCorpus, n \in (MaxPages + 1)..MaxLongPages}

Init ==
  /\ script \in Scripts
  /\ doc \in ShortDocs \cup LongDocs
  /\ run = 1
  /\ first_forms = <<>>
  /\ pc = "start"
  /\ page_data = <<>>
  /\ page_num = 0
  /\ current_doc = InitialAccumulator(script)
  /\ documents = <<>>
  /\ doc_counter = 1
  /\ detected_forms = <<>>
  /\ error = FALSE
  /\ document_patterns = None
  /\ classification = None

\* The scripts that are run twice on a PDF, for the two runs to be compared.
Repeated == {"precise", "ocr", "fast", "real", "multi", "enhanced"}

\* The same script is started again on the same PDF, in a new process.
Rerun ==
  /\ script \in Repeated
  /\ pc = "done" /\ run = 1
  /\ run' = 2
  /\ first_forms' = detected_forms
  /\ pc' = "start"
  /\ page_data' = <<>>
  /\ page_num' = 0
  /\ current_doc' = InitialAccumulator(script)
  /\ documents' = <<>>
  /\ doc_counter' = 1
  /\ detected_forms' = <<>>
  /\ error' = FALSE
  /\ UNCHANGED <<script, doc, document_patterns, classification>>

Next ==
  \/ PrecisePage
  \/ PreciseReturn
  \/ OcrExtract
  \/ OcrPage
  \/ OcrReturn
  \/ FastExtract
  \/ FastPage
  \/ FastReturn
  \/ RealExtract
  \/ RealPage
  \/ RealReturn
  \/ MultiProcess
  \/ EnhancedExtract
  \/ EnhancedPage
  \/ EnhancedReturn
  \/ SplitterExtract
  \/ SplitterGroup
  \/ CleanExtract
  \/ MemoryExtract
  \/ MemoryBoundaries
  \/ Rerun

Spec == Init /\ [][Next]_vars

(***************************************************************************)
(* The classifiers called on their own                                     *)
(***************************************************************************)

\* the longest text, in tokens, a classifier is called on
MaxTokens == 2

Classifiers ==
  {"classify_document_content", "classify_page", "classify_document",
   "analyze_document_type", "classify_document_type"}

\* The tokens of the corpus, a title of a type of low base confidence and a
\* second keyword of the weight certificate.
ClassifyVocabulary ==
  UNION {Range(t) : t \in CorpusTexts} \cup {"HEALTH CERTIFICATE", "Net Weight"}
ClassifyTexts == UNION {[1..n -> ClassifyVocabulary] : n \in 0..MaxTokens}

\* One call of one classifier on one text (doc[1].text).  A caller of
\* DocumentClassifier can hand it any catalog by assigning
\* document_patterns; the empty dict is the one tried here.
ClassifyInit ==
  /\ script \in Classifiers
  /\ doc \in {<<TextPage(t)>> : t \in ClassifyTexts}
  /\ document_patterns \in
       IF script = "classify_document" THEN {init_document_patterns, <<>>}
       ELSE {init_document_patterns}
  /\ classification = None
  /\ run = 1
  /\ first_forms = <<>>
  /\ pc = "start"
  /\ page_data = <<>>
  /\ page_num = 0
  /\ current_doc = None
  /\ documents = <<>>
  /\ doc_counter = 1
  /\ detected_forms = <<>>
  /\ error = FALSE

Returned(result) ==
  /\ classification' = result
  /\ pc' = "done"
  /\ UNCHANGED <<script, doc, run, first_forms, page_data, page_num, current_doc,
                 documents, doc_counter, detected_forms, error, document_patterns>>

ClassifyDocumentContent ==
  /\ script = "classify_document_content" /\ pc = "start"
  /\ Returned(classify_document_content(doc[1].text))

ClassifyPage ==
  /\ script = "classify_page" /\ pc = "start"
  /\ Returned(classify_page(doc[1].text))

ClassifyDocument ==
  /\ script = "classify_document" /\ pc = "start"
  /\ Returned(classify_document(document_patterns, doc[1].text))

\* analyze_document_type of realDocumentProcessor.py
AnalyzeDocumentType ==
  /\ script = "analyze_document_type" /\ pc = "start"
  /\ Returned(analyze_document_type(doc[1].text, 1))

\* classify_document_type of intelligentFormSplitter.py
ClassifyDocumentType ==
  /\ script = "classify_document_type" /\ pc = "start"
  /\ Returned(splitter_classify_document_type(doc[1].text))

ClassifyNext ==
  \/ ClassifyDocumentContent
  \/ ClassifyPage
  \/ ClassifyDocument
  \/ AnalyzeDocumentType
  \/ ClassifyDocumentType

ClassifySpec == ClassifyInit /\ [][ClassifyNext]_vars


(***************************************************************************)
(* Per-page work of analyze_document_precisely handed to a worker pool     *)
(***************************************************************************)

\* the workers that can have a page in hand at the same time
MaxWorkers == 2

\* A page a worker has in hand.
Running == [type |-> "running"]

Stored(slot) == slot \notin {None, Running}

\* the number of results the workers have delivered
Completed(results) == Cardinality({i \in DOMAIN results : Stored(results[i])})

\* A store that files a result at the next free position, in the order of
\* completion, and not under its page.
StoreInCompletionOrder(results, p, entry) ==
  LET k == Completed(results) + 1
  IN  [results EXCEPT ![p] = results[k], ![k] = entry]

\* The result of page p is kept under p.
StoreResult(results, p, entry) == [results EXCEPT ![p] = entry]

\* What a worker computes from page p alone: page_info of
\* analyze_page_content and page_numbers of should_start_new_document;
\* overtaken tells that the result of a later page was delivered before it.
WorkerResult(p, overtaken) ==
  LET page_info == analyze_page_content(doc[p], p)
  IN  [info |-> page_info,
       numbers |-> extract_document_numbers(page_info.text),
       overtaken |-> overtaken]

\* The PDFs handed to the pool: pages of one type with two different
\* identifiers, a page with two identifiers, a page of another type and an
\* unreadable page.
ParallelCorpus ==
  {TextPage(Inv1Text), TextPage(Inv2Text), TextPage(AttachText), TextPage(BLText),
   FailingPage}
ParallelDocs == UNION {[1..n -> ParallelCorpus] : n \in 1..MaxPages}

ParallelInit ==
  /\ script = "parallel"
  /\ doc \in ParallelDocs
  /\ run = 1
  /\ first_forms = <<>>
  /\ pc = "classify"
  /\ page_data = [p \in 1..Len(doc) |-> None]
  /\ page_num = 0
  /\ current_doc = None
  /\ documents = <<>>
  /\ doc_counter = 1
  /\ detected_forms = <<>>
  /\ error = FALSE
  /\ document_patterns = None
  /\ classification = None

\* A free worker takes a page no worker has taken.
WorkerTake ==
  /\ script = "parallel" /\ pc = "classify"
  /\ Cardinality({i \in DOMAIN page_data : page_data[i] = Running}) < MaxWorkers
  /\ \E p \in DOMAIN page_data :
       /\ page_data[p] = None
       /\ page_data' = [page_data EXCEPT ![p] = Running]
  /\ UNCHANGED <<script, doc, run, first_forms, pc, page_num, current_doc, documents,
                 doc_counter, detected_forms, error, document_patterns, classification>>

\* A worker delivers the result of the page it has in hand.
WorkerComplete ==
  /\ script = "parallel" /\ pc = "classify"
  /\ \E p \in DOMAIN page_data :
       /\ page_data[p] = Running
       /\ page_data' = StoreResult(page_data, p,
                                   WorkerResult(p, \E q \in DOMAIN page_data :
                                                      q > p /\ Stored(page_data[q])))
  /\ UNCHANGED <<script, doc, run, first_forms, pc, page_num, current_doc, documents,
                 doc_counter, detected_forms, error, document_patterns, classification>>

\* All results are in: the page loop starts.
ParallelJoin ==
  /\ script = "parallel" /\ pc = "classify"
  /\ \A p \in DOMAIN page_data : Stored(page_data[p])
  /\ pc' = "start"
  /\ UNCHANGED <<script, doc, run, first_forms, page_data, page_num, current_doc,
                 documents, doc_counter, detected_forms, error, document_patterns,
                 classification>>

\* should_start_new_document with page_numbers taken from the worker's result
ParallelShouldStart(cur, entry, pnum) ==
  IF cur = None THEN TRUE
  ELSE IF entry.info.type # cur.type /\ entry.info.confidence > 700 THEN TRUE
  ELSE LET current_numbers == extract_document_numbers(Flatten(cur.texts))
           page_numbers == entry.numbers
       IN  IF /\ current_numbers # {} /\ page_numbers # {}
              /\ ~ \E num \in current_numbers : num \in page_numbers
           THEN TRUE
           ELSE Len(cur.pages) > 5 /\ entry.info.confidence > 800

\* One iteration of the page loop of analyze_document_precisely, page_info
\* read from the results of the workers.
ParallelSegment ==
  /\ script = "parallel" /\ pc = "start" /\ page_num < total_pages
  /\ LET entry == page_data[page_num + 1]
         page_info == entry.info
     IN  IF ParallelShouldStart(current_doc, entry, page_num)
         THEN /\ IF current_doc # None
                 THEN /\ \E first \in FirstOf(extract_document_numbers(Flatten(current_doc.texts))) :
                           documents' = Append(documents,
                                          finalize_document(current_doc, doc_counter, first))
                      /\ doc_counter' = doc_counter + 1
                 ELSE UNCHANGED <<documents, doc_counter>>
              /\ current_doc' = NewDoc(page_info)
         ELSE /\ current_doc' =
                   IF current_doc # None
                   THEN [current_doc EXCEPT
                           !.pages = Append(@, page_num + 1),
                           !.texts = Append(@, page_info.text),
                           !.confidence = Max(@, page_info.confidence)]
                   ELSE NewDoc(page_info)
              /\ UNCHANGED <<documents, doc_counter>>
  /\ page_num' = page_num + 1
  /\ UNCHANGED <<script, doc, run, first_forms, pc, page_data, detected_forms, error,
                 document_patterns, classification>>

\* After the loop: the final document, the splitting pass, the result.
ParallelReturn ==
  /\ script = "parallel" /\ pc = "start" /\ page_num = total_pages
  /\ \E first \in FirstOf(IF current_doc = None THEN {}
                          ELSE extract_document_numbers(Flatten(current_doc.texts))) :
       LET all == IF current_doc # None
                  THEN Append(documents, finalize_document(current_doc, doc_counter, first))
                  ELSE documents
       IN  /\ documents' = all
           /\ detected_forms' = IF Len(all) < 10
                                THEN apply_intelligent_splitting(all, total_pages)
                                ELSE all
  /\ pc' = "done"
  /\ UNCHANGED <<script, doc, run, first_forms, page_data, page_num, current_doc,
                 doc_counter, error, document_patterns, classification>>

ParallelNext ==
  \/ WorkerTake
  \/ WorkerComplete
  \/ ParallelJoin
  \/ ParallelSegment
  \/ ParallelReturn

ParallelSpec == ParallelInit /\ [][ParallelNext]_vars


(***************************************************************************)
(* One run of one of the scripts that cut a PDF into runs of pages         *)
(***************************************************************************)

SegmentScripts == {"precise", "ocr", "fast", "quick", "splitter", "clean"}

\* A PDF of the set is a run of equal pages, short or long, and a last page.
BoundaryCorpus ==
  {TextPage(DetailText), TextPage(NotesText), TextPage(Inv1Text), TextPage(HealthText)}
BoundaryDocs ==
  {[i \in 1..n |-> IF i < n THEN a ELSE b] :
     a \in BoundaryCorpus, b \in BoundaryCorpus, n \in {2, MaxPages + 2, MaxLongPages}}

SegmentInit ==
  /\ script \in SegmentScripts
  /\ doc \in ShortDocs \cup LongDocs \cup BoundaryDocs
  /\ run = 1
  /\ first_forms = <<>>
  /\ pc = "start"
  /\ page_data = <<>>
  /\ page_num = 0
  /\ current_doc = IF script = "quick" THEN QuickEmpty ELSE InitialAccumulator(script)
  /\ documents = <<>>
  /\ doc_counter = 1
  /\ detected_forms = <<>>
  /\ error = FALSE
  /\ document_patterns = None
  /\ classification = None

SegmentNext ==
  \/ PrecisePage
  \/ PreciseReturn
  \/ OcrExtract
  \/ OcrPage
  \/ OcrReturn
  \/ FastExtract
  \/ FastPage
  \/ FastReturn
  \/ QuickPage
  \/ QuickReturn
  \/ SplitterExtract
  \/ SplitterGroup
  \/ CleanExtract

SegmentSpec == SegmentInit /\ [][SegmentNext]_vars


(***************************************************************************)
(* Properties                                                              *)
(***************************************************************************)

Done(s) == script = s /\ pc = "done"

\* the pages of the records, concatenated in output order
AllPages(forms) == Flatten([i \in DOMAIN forms |-> forms[i].pages])

\* the confidences analyze_page_content gives the pages of a record
PageConfidences(d) ==
  [k \in DOMAIN d.pages |-> analyze_page_content(doc[d.pages[k]], d.pages[k]).confidence]

Contiguous(pages) == \A k \in 1..(Len(pages) - 1) : pages[k + 1] = pages[k] + 1

AllEmpty == \A p \in 1..total_pages : doc[p].ok /\ doc[p].text = EmptyText

\* C1 (coverage): when analyze_document_precisely (loop and splitting pass)
\* or analyze_scanned_document (identify_document_sets) has returned, the
\* pages lists of the records, concatenated in output order, are 1, 2, ..., N.
C1_Coverage ==
  (Done("precise") \/ Done("ocr")) =>
    AllPages(detected_forms) = [i \in 1..total_pages |-> i]

\* A run of the precise analyzer over at least 7 pages whose records include
\* parts made by the splitting pass.
C1_Witness ==
  /\ Done("precise") /\ total_pages >= 7
  /\ \E i \in DOMAIN detected_forms : detected_forms[i].form_type[2] = "PART"
  /\ Len(detected_forms) >= 4

\* C2 (contiguity): every record of the precise segmentation and of
\* group_documents_intelligently lists pages that go up by one.
C2_Contiguity ==
  (Done("precise") \/ Done("real")) =>
    /\ \A i \in DOMAIN documents : Contiguous(documents[i].pages)
    /\ \A i \in DOMAIN detected_forms : Contiguous(detected_forms[i].pages)

\* C3 (determinism): the second run on the same page texts returns the
\* records of the first run, labels included.
C3_Determinism ==
  ((Done("precise") \/ Done("ocr")) /\ run = 2) => detected_forms = first_forms

\* C4 (monotonic confidence): every record analyze_document_precisely
\* returns has the maximum of its pages' confidences as its confidence.
C4_ConfidenceIsMax ==
  Done("precise") =>
    \A i \in DOMAIN detected_forms :
      detected_forms[i].confidence = SeqMax(PageConfidences(detected_forms[i]))

\* C5 (confidence bounds): the confidence of every returned record lies
\* between the least and the greatest confidence of its pages, for the
\* precise analyzer and for the enhanced processor, whose pages all have 0.85.
C5_ConfidenceBounds ==
  /\ Done("precise") =>
       \A i \in DOMAIN detected_forms :
         LET d == detected_forms[i]
         IN  /\ SeqMin(PageConfidences(d)) <= d.confidence
             /\ d.confidence <= SeqMax(PageConfidences(d))
  /\ Done("enhanced") =>
       \A i \in DOMAIN detected_forms :
         LET d == detected_forms[i]
         IN  d.confidence = 850 /\ d.confidence_ulps = 0

\* C6 (single page): a one-page input gives exactly one record, with pages
\* [1] and page range "Page 1", whatever the page's text.
C6_SinglePage ==
  ((Done("precise") \/ Done("fast") \/ Done("multi")) /\ total_pages = 1 /\ doc[1].ok) =>
    /\ Len(detected_forms) = 1
    /\ "pages" \in DOMAIN detected_forms[1]
    /\ detected_forms[1].pages = <<1>>
    /\ "page_range" \in DOMAIN detected_forms[1]
    /\ detected_forms[1].page_range = <<"Page", 1>>

\* The three-page inputs of scenario A: an invoice page with identifier
\* inv-001 and confidence above 0.7, a page with no signature and no
\* identifier, a bill of lading page with identifier bl-900.
IsScenarioA ==
  /\ total_pages = 3 /\ \A p \in 1..3 : doc[p].ok
  /\ LET c1 == classify_document_content(doc[1].text)
         c2 == classify_document_content(doc[2].text)
         c3 == classify_document_content(doc[3].text)
     IN  /\ c1[1] = "Commercial Invoice" /\ c1[2] > 700
         /\ extract_document_numbers(doc[1].text) = {"inv-001"}
         /\ c2 = <<"Trade Finance Document", 300>>
         /\ extract_document_numbers(doc[2].text) = {}
         /\ c3[1] = "Bill of Lading" /\ c3[2] > 700
         /\ extract_document_numbers(doc[3].text) = {"bl-900"}

\* C7 (scenario A): the precise analyzer returns two records, Commercial
\* Invoice with pages [1, 2] and then Bill of Lading with pages [3].
C7_ScenarioA ==
  (Done("precise") /\ IsScenarioA) =>
    /\ Len(detected_forms) = 2
    /\ detected_forms[1].document_type = "Commercial Invoice"
    /\ detected_forms[1].pages = <<1, 2>>
    /\ detected_forms[2].document_type = "Bill of Lading"
    /\ detected_forms[2].pages = <<3>>

\* The run over invoice, continuation page, bill of lading has returned.
C7_Witness ==
  /\ Done("precise")
  /\ doc = <<TextPage(Inv1Text), TextPage(ContText), TextPage(BLText)>>
  /\ IsScenarioA
  /\ detected_forms[1].confidence = 960
  /\ detected_forms[1].form_type = <<"Commercial Invoice", "inv-001">>

\* C8 (scenario B): two consecutive Commercial Invoice pages with the
\* identifiers inv-001 and inv-002 come out as two records of one page each,
\* from the precise analyzer and from the real-document processor.
C8_ScenarioB ==
  ((Done("precise") \/ Done("real")) /\ doc = <<TextPage(Inv1Text), TextPage(Inv2Text)>>) =>
    /\ Len(detected_forms) = 2
    /\ detected_forms[1].pages = <<1>>
    /\ detected_forms[2].pages = <<2>>

\* C9 (scenario C): N pages of empty text come out of the precise analyzer
\* as one record with the fallback type, the floor confidence 0.3 and the
\* pages 1..N.
C9_ScenarioC ==
  (Done("precise") /\ AllEmpty) =>
    /\ Len(detected_forms) = 1
    /\ detected_forms[1].document_type = "Trade Finance Document"
    /\ detected_forms[1].confidence = 300
    /\ detected_forms[1].pages = [i \in 1..total_pages |-> i]

\* The twelve-page inputs of scenario D: every page has the same type with
\* a confidence above 0.8 and no page has an identifier.
IsScenarioD ==
  /\ total_pages = 12
  /\ \A p \in 1..12 :
       /\ doc[p].ok
       /\ classify_document_content(doc[p].text)[1] = classify_document_content(doc[1].text)[1]
       /\ classify_document_content(doc[p].text)[2] > 800
       /\ extract_document_numbers(doc[p].text) = {}

\* C10 (scenario D): the segmentation loop alone cuts the twelve pages into
\* at least two documents, and at least two records are returned.
C10_ScenarioD ==
  (Done("precise") /\ IsScenarioD) =>
    Len(documents) >= 2 /\ Len(detected_forms) >= 2

\* Twelve packing-list pages: the loop cut after page 6.
C10_Witness ==
  /\ Done("precise") /\ IsScenarioD
  /\ Len(documents) = 2
  /\ documents[1].pages = <<1, 2, 3, 4, 5, 6>>
  /\ documents[2].pages = <<7, 8, 9, 10, 11, 12>>

\* the number of records that list page p
RecordsWith(forms, p) ==
  Cardinality({i \in DOMAIN forms : \E k \in DOMAIN forms[i].pages : forms[i].pages[k] = p})

\* C11 (empty text is not dropped): when analyze_real_document or
\* group_pages_by_document_type has returned its records, every page 1..N,
\* however short its text, is listed by exactly one record.
C11_EmptyNotDropped ==
  ((Done("fast") \/ Done("splitter")) /\ ~ error) =>
    \A p \in 1..total_pages : RecordsWith(detected_forms, p) = 1
\* the page numbers of the entries handed to the grouping pass, in order
HandedPages ==
  [k \in DOMAIN page_data |->
     IF script = "clean" THEN page_data[k].pages[1] ELSE page_data[k].page_number]

\* C12 (fail fast): when the page entries that extract_real_text_from_pdf or
\* extract_clean_documents hands to its grouping pass are not pages 1..N in
\* order, the call returns an error and no records.
C12_FailFast ==
  ((Done("real") \/ Done("clean")) /\ HandedPages # [i \in 1..total_pages |-> i]) =>
    (error /\ detected_forms = <<>>)
\* the text a classifier was called on
ClassifiedText == LowerText(doc[1].text)

\* the confidence classify_document_content computes for entry i of its
\* catalog, 0 when no keyword of the entry is in the text
PreciseScore(i) ==
  LET matches == CountMatches(precise_patterns[i].keywords, ClassifiedText)
  IN  IF matches = 0 THEN 0
      ELSE Min(precise_patterns[i].base_confidence + (matches - 1) * 20, 980)

\* the entries no other entry beats
PreciseBest ==
  {i \in DOMAIN precise_patterns :
     PreciseScore(i) > 0 /\ \A j \in DOMAIN precise_patterns : PreciseScore(j) <= PreciseScore(i)}

\* the quotient classify_document computes for entry i of its catalog
ClassifierScore(i) ==
  <<Cardinality({k \in DOMAIN document_patterns[i].patterns :
                   Contains(ClassifiedText, document_patterns[i].patterns[k])}),
    Len(document_patterns[i].patterns)>>

ClassifierBest ==
  {i \in DOMAIN document_patterns :
     /\ ClassifierScore(i)[1] > 0
     /\ \A j \in DOMAIN document_patterns : ~ Greater(ClassifierScore(j), ClassifierScore(i))}

\* C13 (tie-break): classify_document_content and classify_document return
\* the first, in catalog order, of the entries with the best score (the
\* fallback when no entry scores).
C13_TieBreak ==
  /\ Done("classify_document_content") =>
       classification[1] =
         IF PreciseBest = {} THEN "Trade Finance Document"
         ELSE precise_patterns[CHOOSE i \in PreciseBest : \A j \in PreciseBest : i <= j].doc_type
  /\ Done("classify_document") =>
       classification[1] =
         IF ClassifierBest = {} THEN "Unknown Document"
         ELSE document_patterns[CHOOSE i \in ClassifierBest :
                                   \A j \in ClassifierBest : i <= j].doc_type

\* classify_document_content has returned on a text for which two entries
\* of the catalog tie for the best confidence.
C13_Witness ==
  /\ Done("classify_document_content")
  /\ Cardinality(PreciseBest) >= 2
  /\ classification[1] = "Commercial Invoice"
\* C14 (empty text): called on the empty text, classify_document_content and
\* classify_page return their fallback type with confidence 0.
C14_EmptyTextConfidence ==
  ((Done("classify_document_content") \/ Done("classify_page")) /\ doc[1].text = EmptyText) =>
    /\ classification[1] \in {"Trade Finance Document", "Unknown Document"}
    /\ classification[2] = 0
\* C15 (degraded classification never raises): whatever the pages are --
\* empty, a few characters, matching no signature, unreadable -- the runs of
\* analyze_document_precisely and split_and_process_document end without an
\* error result; the precise run files every page under one record, and the
\* multi-page run has a record with a type and a confidence for every page
\* it classifies.
C15_NeverRaises ==
  /\ Done("precise") =>
       /\ ~ error
       /\ \A p \in 1..total_pages : RecordsWith(detected_forms, p) = 1
       /\ \A i \in DOMAIN detected_forms : detected_forms[i].confidence \in 1..1000
  /\ Done("multi") =>
       /\ ~ error
       /\ \A p \in 1..total_pages :
            (total_pages = 1 \/ extract_text_from_page(doc[p]) # <<>>) =>
              \E i \in DOMAIN detected_forms :
                 /\ detected_forms[i].page_number = p
                 /\ detected_forms[i].form_type = <<classify_page(extract_text_from_page(doc[p]))[1]>>
                 /\ detected_forms[i].confidence \in 1..1000

\* A precise run has returned its records for a PDF with an unreadable
\* page, an empty page and a page that matches no signature.
C15_Witness ==
  /\ Done("precise") /\ ~ error
  /\ \E p \in 1..total_pages : ~ doc[p].ok
  /\ \E p \in 1..total_pages : doc[p].ok /\ doc[p].text = EmptyText
  /\ \E p \in 1..total_pages : doc[p].text = ContText
  /\ Len(detected_forms) >= 1
\* the type that occurs most often in a sequence of types, the one that
\* occurs first among those that occur equally often
MajorityType(types) ==
  LET Count(t) == Cardinality({k \in DOMAIN types : types[k] = t})
      FirstAt(t) == CHOOSE k \in DOMAIN types :
                      types[k] = t /\ \A j \in DOMAIN types : types[j] = t => k <= j
  IN  CHOOSE t \in Range(types) :
        \A u \in Range(types) :
           Count(t) > Count(u) \/ (Count(t) = Count(u) /\ FirstAt(t) <= FirstAt(u))

\* C16 (majority vote): the document_type of every record that
\* analyze_document_precisely finalizes, and of every set that
\* identify_document_sets creates, is the majority type of the
\* classifications of the record's pages.
C16_MajorityVote ==
  /\ Done("precise") =>
       \A i \in DOMAIN documents :
          documents[i].document_type =
            MajorityType([k \in DOMAIN documents[i].pages |->
                            analyze_page_content(doc[documents[i].pages[k]],
                                                 documents[i].pages[k]).type])
  /\ Done("ocr") =>
       \A i \in DOMAIN detected_forms :
          detected_forms[i].document_type =
            MajorityType([k \in DOMAIN detected_forms[i].pages |->
                            get_document_type_name(classify_page_content(
                              OcrPageEntry(doc[detected_forms[i].pages[k]],
                                           detected_forms[i].pages[k]).text))])
\* the identifiers in the texts of the pages of a record
RecordNumbers(r) ==
  extract_document_numbers(
    Flatten([k \in DOMAIN r.pages |-> analyze_page_content(doc[r.pages[k]], r.pages[k]).text]))

\* C17 (label format): the label of every record of analyze_document_precisely
\* is its document_type followed, in parentheses, by an identifier of the
\* run (the first one found, cut to 8 characters) when the run has one, and
\* by the record's page_range when it has none.
C17_LabelFormat ==
  Done("precise") =>
    \A i \in DOMAIN detected_forms :
       LET r == detected_forms[i]
       IN  IF RecordNumbers(r) # {}
           THEN \E x \in RecordNumbers(r) : r.form_type = <<r.document_type, Prefix(x, 8)>>
           ELSE r.form_type = <<r.document_type>> \o r.page_range

\* C18 (page_range format): in every record a script returns with a
\* page_range, the page_range is "Page N" when the record lists the one page N
\* and "Pages N-M", N its first and M its last page, when it lists more.
C18_PageRange ==
  pc = "done" =>
    \A i \in DOMAIN detected_forms :
       LET r == detected_forms[i]
       IN  "page_range" \in DOMAIN r =>
             /\ Len(r.pages) >= 1
             /\ r.page_range = IF Len(r.pages) = 1 THEN <<"Page", r.pages[1]>>
                               ELSE <<"Pages", r.pages[1], r.pages[Len(r.pages)]>>

\* extract_real_text_from_pdf returned a record of two pages that are not
\* consecutive, the page between them having been skipped.
C18_Witness ==
  /\ Done("real")
  /\ \E i \in DOMAIN detected_forms :
       /\ Len(detected_forms[i].pages) = 2
       /\ detected_forms[i].pages[2] = detected_forms[i].pages[1] + 2
       /\ detected_forms[i].page_range = <<"Pages", detected_forms[i].pages[1],
                                           detected_forms[i].pages[1] + 2>>

RECURSIVE SequentialDocuments(_, _, _, _)
SequentialDocuments(i, cur, docs, counter) ==
  LET numbers == IF cur = None THEN {} ELSE extract_document_numbers(Flatten(cur.texts))
  IN  IF i > total_pages
      THEN IF cur = None THEN {docs}
           ELSE {Append(docs, finalize_document(cur, counter, first)) :
                   first \in FirstOf(numbers)}
      ELSE LET page_info == analyze_page_content(doc[i], i)
           IN  IF should_start_new_document(cur, page_info, i - 1)
               THEN IF cur # None
                    THEN UNION {SequentialDocuments(i + 1, NewDoc(page_info),
                                  Append(docs, finalize_document(cur, counter, first)),
                                  counter + 1) : first \in FirstOf(numbers)}
                    ELSE SequentialDocuments(i + 1, NewDoc(page_info), docs, counter)
               ELSE SequentialDocuments(i + 1,
                      [cur EXCEPT !.pages = Append(@, i),
                                  !.texts = Append(@, page_info.text),
                                  !.confidence = Max(@, page_info.confidence)],
                      docs, counter)

\* the records analyze_document_precisely can return for the PDF
SequentialRecords ==
  {IF Len(all) < 10 THEN apply_intelligent_splitting(all, total_pages) ELSE all :
     all \in SequentialDocuments(1, None, <<>>, 1)}

PreciseStarted == current_doc.pages = <<page_num>>

\* what analyze_page_content returned for the page of that iteration
PreciseInfo == analyze_page_content(doc[page_num], page_num)

\* The current document as the iteration found it: its type, its pages and
\* their texts.  When the page opened a document it is the document just
\* finalized, else the current document without the page.
PrecisePrev ==
  IF PreciseStarted
  THEN LET d == documents[Len(documents)]
       IN  [type |-> d.document_type, pages |-> d.pages,
            texts |-> [k \in DOMAIN d.pages |->
                         analyze_page_content(doc[d.pages[k]], d.pages[k]).text]]
  ELSE [type |-> current_doc.type,
        pages |-> SubSeq(current_doc.pages, 1, Len(current_doc.pages) - 1),
        texts |-> SubSeq(current_doc.texts, 1, Len(current_doc.texts) - 1)]

\* two identifier sets that are both non-empty and share no element
Diverge(a, b) == a # {} /\ b # {} /\ a \cap b = {}

\* an iteration of the loop for a page after the first has just ended
AfterPrecisePage == script = "precise" /\ pc = "start" /\ page_num >= 2

\* C21 (type-change rule): a page after the first whose type differs from the
\* current document's type opens a document when its confidence is above 0.7;
\* when its confidence is 0.7 or less it opens one only if the identifiers
\* of the current document and of the page diverge.
C21_TypeChange ==
  AfterPrecisePage =>
    LET differs == PreciseInfo.type # PrecisePrev.type
    IN  /\ (differs /\ PreciseInfo.confidence > 700) => PreciseStarted
        /\ (differs /\ PreciseInfo.confidence <= 700 /\ PreciseStarted) =>
             Diverge(extract_document_numbers(Flatten(PrecisePrev.texts)),
                     extract_document_numbers(PreciseInfo.text))

\* A packing-list page (confidence 0.87, no identifier) after an invoice page
\* has opened a document.
C21_Witness ==
  /\ AfterPrecisePage
  /\ doc = <<TextPage(Inv1Text), TextPage(PackText)>>
  /\ page_num = 2
  /\ PreciseInfo.type = "Packing List" /\ PreciseInfo.confidence > 700
  /\ PrecisePrev.type = "Commercial Invoice"
  /\ PreciseStarted

\* the identifiers analyze_document_precisely can find on page p alone
PageNumbers(p) == extract_document_numbers(analyze_page_content(doc[p], p).text)

\* In the loop of identify_document_sets, after the iteration for the page
\* entry page_num: that entry opened a set.
AfterOcrPage == script = "ocr" /\ pc = "group" /\ page_num >= 2
OcrStarted == current_doc = <<page_data[page_num]>>

\* C22 (identifier divergence compares adjacent pages): when neither the
\* type-change rule nor the run-length rule applies to a page after the
\* first, analyze_document_precisely opens a document at it exactly when the
\* identifiers of the page before it and its own are both non-empty and share
\* no element.
C22_AdjacentIdentifiers ==
  AfterPrecisePage =>
    LET type_rule == PreciseInfo.type # PrecisePrev.type /\ PreciseInfo.confidence > 700
        cap_rule == Len(PrecisePrev.pages) > 5 /\ PreciseInfo.confidence > 800
    IN  (~ type_rule /\ ~ cap_rule) =>
          (PreciseStarted <=> Diverge(PageNumbers(page_num - 1), PageNumbers(page_num)))
\* In the loop of identify_document_boundaries, after the iteration that
\* compared the page entries page_num - 1 and page_num: the latter opened a
\* document.
AfterFastPage == script = "fast" /\ pc = "group" /\ page_num >= 2
FastStarted == current_doc = page_num - 1

\* The rules that precede the similarity rule, and the similarity rule of the
\* spec, on the page entries prev and cur: types by classify, identifiers by
\* numbers, header cue by the patterns, similarity below bound / 1000.
TypeChanged(classify(_), unknown, prev, cur) ==
  classify(prev.text) # classify(cur.text) /\ classify(cur.text) # unknown
HeaderCue(patterns, cur) ==
  \E k \in DOMAIN patterns : Search(patterns[k], LowerText(cur.text))
LowSimilarity(prev, cur, bound) ==
  Below(calculate_similarity(prev.text, cur.text), bound)

\* C23 (similarity-plus-header rule): when neither the type-change rule nor
\* the identifier rule applies to a page after the first, the page opens a
\* document exactly when its similarity with the page before it is below the
\* low threshold (0.2 in is_new_document_start, 0.3 in
\* detect_document_boundary) and its text has a header cue.
C23_SimilarityAndHeader ==
  /\ AfterOcrPage =>
       LET prev == page_data[page_num - 1]
           cur == page_data[page_num]
       IN  (/\ ~ TypeChanged(classify_page_content, "unknown", prev, cur)
            /\ ~ Diverge(extract_numbers(prev.text), extract_numbers(cur.text)))
             => (OcrStarted <=> (/\ LowSimilarity(prev, cur, 200)
                                 /\ HeaderCue(ocr_header_patterns, cur)))
  /\ AfterFastPage =>
       LET prev == page_data[page_num - 1]
           cur == page_data[page_num]
       IN  (/\ ~ TypeChanged(fast_classify_document_type, "Unknown", prev, cur)
            /\ ~ Diverge(fast_extract_document_numbers(prev.text),
                         fast_extract_document_numbers(cur.text)))
             => (FastStarted <=> (/\ LowSimilarity(prev, cur, 300)
                                  /\ HeaderCue(fast_new_doc_patterns, cur)))
\* the confidence analyze_page_content gives page p
PageConfidence(p) == analyze_page_content(doc[p], p).confidence

\* C24 (soft run cap): in analyze_document_precisely, a page that meets a
\* document of more than 5 pages and is classified with at least moderate
\* confidence (here: above 0.7, the confidence that makes a type change
\* count) opens a document, whatever its type and identifiers; so every page
\* after the sixth of a document has a confidence of 0.7 or less.
C24_SoftRunCap ==
  AfterPrecisePage =>
    /\ (Len(PrecisePrev.pages) > 5 /\ PreciseInfo.confidence > 700) => PreciseStarted
    /\ \A k \in DOMAIN current_doc.pages :
         k > 6 => PageConfidence(current_doc.pages[k]) <= 700
\* some record of the returned list begins at page p
RecordOpensAt(p) == \E i \in DOMAIN detected_forms : detected_forms[i].pages[1] = p

\* C25 (continuation by default): a page after the first that has no
\* identifier and no strong type signal (analyze_page_content gives it a
\* confidence of 0.7 or less; quick_classify gives 'Unknown' or the page
\* cannot be read; classify_document_type gives its fallback type) is added
\* to the current run and opens no record.
C25_ContinuationByDefault ==
  /\ AfterPrecisePage =>
       ((PreciseInfo.confidence <= 700 /\ PageNumbers(page_num) = {}) => ~ PreciseStarted)
  /\ (script = "quick" /\ pc = "start" /\ page_num >= 2) =>
       LET page == doc[page_num]
       IN  ((~ page.ok \/ quick_classify(page.text) = "Unknown")
            /\ extract_document_numbers(page.text) = {})
             => (/\ Len(current_doc.pages) >= 2
                 /\ current_doc.pages[Len(current_doc.pages)] = page_num)
  /\ (Done("splitter") /\ ~ error) =>
       \A k \in DOMAIN page_data :
         (/\ k > 1
          /\ page_data[k].document_type = "Trade Finance Document"
          /\ extract_document_numbers(doc[page_data[k].page_number].text) = {})
           => ~ RecordOpensAt(page_data[k].page_number)
\* the confidence best_match starts with in each of the three loops
FallbackFloor ==
  CASE script = "classify_document_content" -> 300
    [] script = "analyze_document_type" -> 300
    [] script = "classify_document_type" -> 600

\* the type name of a returned pair, which analyze_document_type returns
\* inside a label
ReturnedType ==
  IF script = "analyze_document_type" THEN classification[1][1] ELSE classification[1]

\* C26 (confidence range): the confidence that classify_document_content,
\* analyze_document_type and classify_document_type return is at most 0.98
\* and at least the fallback's, and a type other than the fallback is
\* returned only with a confidence strictly above the fallback's.
C26_ConfidenceRange ==
  (pc = "done" /\ script \in {"classify_document_content", "analyze_document_type",
                              "classify_document_type"}) =>
    /\ classification[2] <= 980
    /\ classification[2] >= FallbackFloor
    /\ classification[2] >= 0 /\ classification[2] <= 1000
    /\ ReturnedType # "Trade Finance Document" => classification[2] > FallbackFloor
\* the splitting pass of analyze_document_precisely has run on documents
AfterSplitting == Done("precise") /\ ~ error /\ Len(documents) < 10

\* C27 (the splitting pass preserves the partition): the records that
\* apply_intelligent_splitting returns list the pages of the documents it was
\* given, in the same order; each lists at least one page and consecutive
\* pages; a document of 3 pages or fewer is returned as it is, and a returned
\* record that is not one of the documents is a part of a document of more
\* than 3 pages.
C27_SplittingPreservesPartition ==
  AfterSplitting =>
    /\ AllPages(detected_forms) = AllPages(documents)
    /\ \A i \in DOMAIN detected_forms :
         detected_forms[i].pages # <<>> /\ Contiguous(detected_forms[i].pages)
    /\ \A k \in DOMAIN documents :
         Len(documents[k].pages) <= 3 =>
           \E i \in DOMAIN detected_forms : detected_forms[i] = documents[k]
    /\ \A i \in DOMAIN detected_forms :
         (\A k \in DOMAIN documents : detected_forms[i] # documents[k]) =>
           \E k \in DOMAIN documents :
             /\ Len(documents[k].pages) > 3
             /\ Range(detected_forms[i].pages) \subseteq Range(documents[k].pages)
             /\ Len(detected_forms[i].pages) < Len(documents[k].pages)

\* Four invoice pages and a certificate page: the invoice document of four
\* pages came back as four parts, the certificate document as it was.
C27_Witness ==
  /\ AfterSplitting
  /\ Len(documents) = 2
  /\ documents[1].pages = <<1, 2, 3, 4>> /\ documents[2].pages = <<5>>
  /\ Len(detected_forms) = 5
  /\ detected_forms[1].form_type = <<documents[1].document_type, "PART", 1>>
  /\ detected_forms[5] = documents[2]
\* the loop of analyze_document_precisely or identify_document_sets has
\* ended and its documents are in "documents"
AfterSegmentation == (Done("precise") /\ ~ error) \/ Done("ocr")

\* C28 (record count and non-emptiness): for a PDF of N >= 1 pages the loop
\* of analyze_document_precisely and identify_document_sets emit between 1
\* and N documents, each with at least one page; the first document begins at
\* page 1, and the documents are in increasing order of their first page.
C28_RecordCount ==
  AfterSegmentation =>
    /\ total_pages >= 1
    /\ Len(documents) >= 1 /\ Len(documents) <= total_pages
    /\ \A i \in DOMAIN documents : Len(documents[i].pages) >= 1
    /\ documents[1].pages[1] = 1
    /\ \A i, j \in DOMAIN documents :
         i < j => documents[i].pages[1] < documents[j].pages[1]

\* Three pages cut by the precise loop into the documents [1, 2] and [3].
C28_Witness ==
  /\ Done("precise") /\ ~ error
  /\ total_pages = 3
  /\ Len(documents) = 2
  /\ documents[1].pages = <<1, 2>>
  /\ documents[2].pages = <<3>>
\* the type names quick_classify can return
QuickTypeNames == {quick_terms[i].doc_type : i \in DOMAIN quick_terms} \cup {"Unknown"}

\* C29 (quick_analyze_document): every returned record has a document_type
\* that is one of the classifier's type names, never None, and every page
\* 1..N is listed by exactly one record, also when the first pages are
\* 'Unknown' and when the processing of a page raises.
C29_QuickRecords ==
  Done("quick") =>
    /\ \A i \in DOMAIN detected_forms : detected_forms[i].document_type \in QuickTypeNames
    /\ \A p \in 1..total_pages : RecordsWith(detected_forms, p) = 1
\* the type of the single-page record of page p in the list handed to
\* group_consecutive_documents
InputType(p) ==
  LET k == CHOOSE k \in DOMAIN page_data : page_data[k].pages = <<p>>
  IN  page_data[k].document_type

\* C30 (runs are maximal and homogeneous): group_consecutive_documents, given
\* single-page records with increasing page numbers, some numbers possibly
\* missing, returns groups of consecutive pages whose records all have the
\* group's document_type, and two neighbouring groups never have both the
\* same document_type and adjoining pages.
C30_MaximalRuns ==
  Done("clean") =>
    /\ \A i \in DOMAIN detected_forms :
         LET g == detected_forms[i]
         IN  /\ g.pages # <<>> /\ Contiguous(g.pages)
             /\ \A k \in DOMAIN g.pages : InputType(g.pages[k]) = g.document_type
    /\ \A i \in 1..(Len(detected_forms) - 1) :
         LET g == detected_forms[i]
             h == detected_forms[i + 1]
         IN  ~ (/\ g.document_type = h.document_type
                /\ h.pages[1] = g.pages[Len(g.pages)] + 1)
    /\ AllPages(detected_forms) = AllPages(page_data)

\* Two invoice pages with a page between them that gave no record: two
\* groups of the same type, pages [1] and [3].
C30_Witness ==
  /\ Done("clean")
  /\ Len(page_data) = 2 /\ page_data[1].pages = <<1>> /\ page_data[2].pages = <<3>>
  /\ page_data[1].document_type = page_data[2].document_type
  /\ Len(detected_forms) = 2
  /\ detected_forms[1].pages = <<1>> /\ detected_forms[2].pages = <<3>>

====
